---- MODULE Spec2Model ----
(***************************************************************************)
(* The SOCKS5 -> ShadowsocksR tunnel of src/client/tunnel.c as a state     *)
(* machine driven by libuv completions.  One tunnel is followed from       *)
(* tunnel_initialize to the free() in tunnel_release.  The C structs are   *)
(* records: `tunnel' is struct tunnel_ctx, tunnel.incoming and             *)
(* tunnel.outgoing are struct socket_ctx.  The libuv handles and requests  *)
(* embedded in socket_ctx (handle, timer_handle, write_req, t.req) are the *)
(* fields reading / writes / timer / req / handle / timer_handle.          *)
(* Every C function is an operator from a tunnel record to a tunnel        *)
(* record; every libuv callback is an action.                              *)
(***************************************************************************)
EXTENDS Integers, Sequences, FiniteSets, TLC

VARIABLES
    tunnel,      \* struct tunnel_ctx (kept as stale memory after free)
    alloc,       \* "none" before calloc, "live", "freed" after free(tunnel)
    tunnel_set,  \* env->tunnel_set, the registry of live tunnels
    frees,       \* number of times free(tunnel) ran
    uaf,         \* a callback touched the tunnel after free(tunnel)
    tc,          \* struct tunnel_cipher_ctx and the buffers of one pipeline call
    obfs,        \* struct obfs_t of auth_aes128: l_data, server.g_data, server
    wire         \* the plugin's calls and the packed bytes between them

vars == <<tunnel, alloc, tunnel_set, frees, uaf, tc, obfs, wire>>

\* Bound: chunks read per direction in the proxy phase.
MaxChunks == 2

\* Bound: client_pre_encrypt calls on one plugin instance.
MaxCalls == 2

TunnelId == "tunnel"
Sockets == {"incoming", "outgoing"}

(***************************************************************************)
(* I/O results.  c->result holds a byte count (>= 0) or a libuv error (<0).*)
(***************************************************************************)
UvErrors ==
    {"UV_EOF", "UV_ECONNRESET", "UV_ECANCELED", "UV_ECONNREFUSED",
     "UV_ETIMEDOUT", "UV_EPIPE", "UV_EAI_NONAME"}
Neg(r) == r \in UvErrors
NREAD == "nread"     \* a positive byte count
ZERO == "0"

(***************************************************************************)
(* Data handed to uv_write.                                                *)
(***************************************************************************)
Reply(bytes) == [kind |-> "reply", bytes |-> bytes, seq |-> 0]
EncInit(pkg) == [kind |-> "init_package", bytes |-> pkg, seq |-> 0]
Chunk(k) == [kind |-> "data", bytes |-> <<>>, seq |-> k]
Feedback(k) == [kind |-> "feedback", bytes |-> <<>>, seq |-> k]

AuthMethods == {"s5_auth_none", "s5_auth_gssapi", "s5_auth_passwd"}

\* Destinations a SOCKS5 request can name: atyp, raw address, port.
Dests ==
    { [atyp |-> 1, daddr |-> <<1, 2, 3, 4>>, dport |-> <<31, 144>>],
      [atyp |-> 3, daddr |-> <<101, 120>>, dport |-> <<1, 187>>] }

\* The inputs one callback can meet: parser verdict, configuration,
\* environment answers, cipher pipeline verdicts.
NoInput ==
    [err |-> "s5_ok", size |-> 0, methods |-> {}, cmd |-> "s5_cmd_tcp_connect",
     dest |-> CHOOSE d \in Dests : d.atyp = 1, numeric |-> TRUE, access |-> TRUE,
     connect_err |-> FALSE, udp |-> TRUE, cipher |-> "ssr_ok", len |-> 1,
     feedback |-> FALSE]

ASSERT(T, cond) == IF cond THEN T ELSE [T EXCEPT !.assert_failed = TRUE]

socket_ctx_init ==
    [rdstate |-> "socket_stop", wrstate |-> "socket_stop", result |-> ZERO,
     reading |-> "none", writes |-> <<>>, sent |-> <<>>, timer |-> FALSE,
     req |-> "none", handle |-> "none", timer_handle |-> "none",
     nrecv |-> 0, closes |-> 0, held |-> <<>>]

tunnel_ctx_init ==
    [state |-> "session_handshake", ref_count |-> 0,
     incoming |-> socket_ctx_init, outgoing |-> socket_ctx_init,
     init_pkg |-> <<>>, cipher |-> FALSE,
     assert_failed |-> FALSE, next_failed |-> FALSE, in_next |-> FALSE,
     shutdowns |-> 0,
     rearmed |-> {}, moves |-> {}, encrypted |-> 0]

\* The loop calls a callback: no uv_timer_start was made in it yet.
\* T.rearmed is the set of sockets whose timer the running callback
\* started anew, T.encrypted the length of the buffer it handed to
\* tunnel_encrypt, T.in_next whether it called do_next.
Entered(T) ==
    [T EXCEPT !.rearmed = {}, !.moves = {}, !.encrypted = 0, !.in_next = FALSE]

\* An assignment to c->rdstate, c->wrstate or, in socket_close, to both:
\* moves collects, for the running callback, the states of the socket
\* before and after every assignment that changed one of them.
Move(T, c, rd, wr) ==
    [c |-> c, rd_from |-> T[c].rdstate, rd_to |-> rd,
              wr_from |-> T[c].wrstate, wr_to |-> wr]

set_states(T, c, rd, wr) ==
    [T EXCEPT ![c].rdstate = rd, ![c].wrstate = wr,
              !.moves = IF T[c].rdstate = rd /\ T[c].wrstate = wr
                        THEN @ ELSE @ \cup {Move(T, c, rd, wr)}]

set_rdstate(T, c, rd) == set_states(T, c, rd, T[c].wrstate)

set_wrstate(T, c, wr) == set_states(T, c, T[c].rdstate, wr)

set_dead(T, c) == set_states(T, c, "socket_dead", "socket_dead")

tunnel_is_dead(T) == T.state = "session_dead"

tunnel_add_ref(T) == [T EXCEPT !.ref_count = @ + 1]

socket_timer_reset(T, c) ==
    [T EXCEPT ![c].timer = TRUE, !.rearmed = @ \cup {c}]

\* socket_read that does not start the idle timer.
socket_read_notimer(T, c) ==
    LET T1 == ASSERT(T, T[c].rdstate = "socket_stop")
    IN  [set_rdstate(T1, c, "socket_busy")
                     EXCEPT ![c].reading = "socket_read_done_cb"]

socket_read(T, c) ==
    LET T1 == ASSERT(T, T[c].rdstate = "socket_stop")
    IN  socket_timer_reset(
            [set_rdstate(T1, c, "socket_busy")
                         EXCEPT ![c].reading = "socket_read_done_cb"], c)

socket_read_stop(T, c) ==
    [set_rdstate(T, c, "socket_stop") EXCEPT ![c].reading = "none"]

socket_write(T, c, data) ==
    LET T1 == ASSERT(T, T[c].wrstate \in {"socket_stop", "socket_done"})
    IN  socket_timer_reset(
            [set_wrstate(T1, c, "socket_busy")
                         EXCEPT ![c].writes = Append(@, [cb |-> "socket_write_done_cb",
                                                 data |-> data]),
                       ![c].sent = Append(@, data),
                       ![c].held = Append(@, TRUE)], c)


\* ssr_write queueing the buffer ahead of the ones already handed over.
ssr_write_front(T, c, data) ==
    [T EXCEPT ![c].writes = <<[cb |-> "ssr_write_done_cb", data |-> data]>> \o @,
              ![c].sent = <<data>> \o @,
              ![c].held = <<TRUE>> \o @]

ssr_write(T, c, data) ==
    [T EXCEPT ![c].writes = Append(@, [cb |-> "ssr_write_done_cb", data |-> data]),
              ![c].sent = Append(@, data),
              ![c].held = Append(@, TRUE)]

\* buffer_free of the buffer that was last handed to a write of socket c:
\* held tells, for each write of c not yet called back, whether its buffer
\* is still allocated.
buffer_free(T, c) ==
    [T EXCEPT ![c].held = [@ EXCEPT ![Len(@)] = FALSE]]

socket_getaddrinfo(T, c) ==
    socket_timer_reset([T EXCEPT ![c].req = "getaddrinfo"], c)

\* uv_tcp_connect fails at once (in.connect_err) or queues the request.
socket_connect(T, c, in) ==
    LET T1 == socket_timer_reset(T, c)
    IN  IF in.connect_err THEN T1 ELSE [T1 EXCEPT ![c].req = "connect"]

\* socket_close taking one reference for its two uv_close calls.
socket_close_one_ref(T, c) ==
    LET T1 == ASSERT(ASSERT(T, T[c].rdstate # "socket_dead"),
                     T[c].wrstate # "socket_dead")
        T2 == set_dead(T1, c)
        T3 == [tunnel_add_ref(T2) EXCEPT ![c].handle = "closing",
                                         ![c].reading = "none",
                                         ![c].closes = @ + 1]
    IN  [T3 EXCEPT ![c].timer_handle = "closing", ![c].timer = FALSE]

\* uv_close on the stream and on the timer: reading and the timer stop at
\* once, queued writes and a pending connect are still called back.
\* closes counts the calls of socket_close on the socket.
socket_close(T, c) ==
    LET T1 == ASSERT(ASSERT(T, T[c].rdstate # "socket_dead"),
                     T[c].wrstate # "socket_dead")
        T2 == set_dead(T1, c)
        T3 == [tunnel_add_ref(T2) EXCEPT ![c].handle = "closing",
                                         ![c].reading = "none",
                                         ![c].closes = @ + 1]
    IN  [tunnel_add_ref(T3) EXCEPT ![c].timer_handle = "closing",
                                   ![c].timer = FALSE]

\* shutdowns counts the calls of tunnel_shutdown on the tunnel.
tunnel_shutdown(T) ==
    LET T1 == ASSERT(T, ~tunnel_is_dead(T))
        T2 == socket_close(socket_close(T1, "incoming"), "outgoing")
    IN  [T2 EXCEPT !.state = "session_dead", !.shutdowns = @ + 1]

(***************************************************************************)
(* Collaborators that live outside tunnel.c.                               *)
(***************************************************************************)
\* The listener accepts unauthenticated clients and no other method.
can_auth_none == TRUE
can_auth_passwd == FALSE

\* s5_parse: the verdicts the streaming parser can give for the bytes of one
\* read in the given tunnel state: s5_ok (need more), the completed message,
\* or an error; size is the count of bytes left unparsed.
s5_parse(state) ==
    IF state = "session_handshake"
    THEN {[NoInput EXCEPT !.err = e, !.size = n, !.methods = m] :
            e \in {"s5_ok", "s5_auth_select", "s5_bad_version"},
            n \in {0, 1}, m \in SUBSET AuthMethods}
    ELSE {[NoInput EXCEPT !.err = e, !.size = n, !.cmd = k, !.dest = d] :
            e \in {"s5_ok", "s5_exec_cmd", "s5_bad_cmd"}, n \in {0, 1},
            k \in {"s5_cmd_tcp_connect", "s5_cmd_tcp_bind", "s5_cmd_udp_assoc"},
            d \in Dests}

initial_package_create(parser) ==
    <<parser.atyp>>
    \o (IF parser.atyp = 3 THEN <<Len(parser.daddr)>> \o parser.daddr
        ELSE parser.daddr)
    \o parser.dport

build_udp_assoc_package(allow) ==
    <<5, IF allow THEN 0 ELSE 7, 0, 1, 127, 0, 0, 1, 4, 56>>

(***************************************************************************)
(* The state handlers.                                                     *)
(***************************************************************************)

\* do_handshake answering 05 00 whatever methods the client offered.
do_handshake_any(T, in) ==
    LET T1 == ASSERT(ASSERT(T, T.incoming.rdstate = "socket_done"),
                     T.incoming.wrstate = "socket_stop")
        T2 == set_rdstate(T1, "incoming", "socket_stop")
    IN  IF Neg(T2.incoming.result) THEN tunnel_shutdown(T2)
        ELSE IF in.err = "s5_ok"
        THEN [socket_read(T2, "incoming") EXCEPT !.state = "session_handshake"]
        ELSE IF in.size # 0 THEN tunnel_shutdown(T2)
        ELSE IF in.err # "s5_auth_select" THEN tunnel_shutdown(T2)
        ELSE [socket_write(T2, "incoming", Reply(<<5, 0>>))
                EXCEPT !.state = "session_req_start"]

do_handshake(T, in) ==
    LET T1 == ASSERT(ASSERT(T, T.incoming.rdstate = "socket_done"),
                     T.incoming.wrstate = "socket_stop")
        T2 == set_rdstate(T1, "incoming", "socket_stop")
    IN  IF Neg(T2.incoming.result) THEN tunnel_shutdown(T2)
        ELSE IF in.err = "s5_ok"
        THEN [socket_read(T2, "incoming") EXCEPT !.state = "session_handshake"]
        ELSE IF in.size # 0 THEN tunnel_shutdown(T2)
        ELSE IF in.err # "s5_auth_select" THEN tunnel_shutdown(T2)
        ELSE IF "s5_auth_none" \in in.methods /\ can_auth_none
        THEN [socket_write(T2, "incoming", Reply(<<5, 0>>))
                EXCEPT !.state = "session_req_start"]
        ELSE IF "s5_auth_passwd" \in in.methods /\ can_auth_passwd
        THEN tunnel_shutdown(T2)
        ELSE [socket_write(T2, "incoming", Reply(<<5, 255>>))
                EXCEPT !.state = "session_kill"]

do_handshake_auth(T) == tunnel_shutdown(ASSERT(T, FALSE))

\* do_req_start that leaves the write state of the client socket at done.
do_req_start_keepdone(T) ==
    LET T1 == ASSERT(ASSERT(T, T.incoming.rdstate = "socket_stop"),
                     T.incoming.wrstate = "socket_done")
    IN  IF Neg(T1.incoming.result) THEN tunnel_shutdown(T1)
        ELSE [socket_read(T1, "incoming") EXCEPT !.state = "session_req_parse"]

do_req_start(T) ==
    LET T1 == ASSERT(ASSERT(T, T.incoming.rdstate = "socket_stop"),
                     T.incoming.wrstate = "socket_done")
        T2 == set_wrstate(T1, "incoming", "socket_stop")
    IN  IF Neg(T2.incoming.result) THEN tunnel_shutdown(T2)
        ELSE [socket_read(T2, "incoming") EXCEPT !.state = "session_req_parse"]

AllStop(T) ==
    /\ T.incoming.rdstate = "socket_stop" /\ T.incoming.wrstate = "socket_stop"
    /\ T.outgoing.rdstate = "socket_stop" /\ T.outgoing.wrstate = "socket_stop"


do_req_connect_start(T, in) ==
    LET T1 == ASSERT(T, AllStop(T))
    IN  IF ~in.access
        THEN [socket_write(T1, "incoming", Reply(<<5, 2, 0, 1, 0, 0, 0, 0, 0, 0>>))
                EXCEPT !.state = "session_kill"]
        ELSE IF in.connect_err
        THEN tunnel_shutdown(socket_connect(T1, "outgoing", in))
        ELSE [socket_connect(T1, "outgoing", in) EXCEPT !.state = "session_req_connect"]

\* do_req_parse answering a BIND request with 05 07 before it kills.
do_req_parse_bind_reply(T, in) ==
    LET T1 == ASSERT(ASSERT(T, T.incoming.rdstate = "socket_done"),
                     /\ T.incoming.wrstate = "socket_stop"
                     /\ T.outgoing.rdstate = "socket_stop"
                     /\ T.outgoing.wrstate = "socket_stop")
        T2 == set_rdstate(T1, "incoming", "socket_stop")
    IN  IF Neg(T2.incoming.result) THEN tunnel_shutdown(T2)
        ELSE IF in.err = "s5_ok"
        THEN [socket_read(T2, "incoming") EXCEPT !.state = "session_req_parse"]
        ELSE IF in.size # 0 THEN tunnel_shutdown(T2)
        ELSE IF in.err # "s5_exec_cmd" THEN tunnel_shutdown(T2)
        ELSE IF in.cmd = "s5_cmd_tcp_bind"
        THEN [socket_write(T2, "incoming", Reply(<<5, 7, 0, 1, 0, 0, 0, 0, 0, 0>>))
                EXCEPT !.state = "session_kill"]
        ELSE IF in.cmd = "s5_cmd_udp_assoc"
        THEN [socket_write(T2, "incoming", Reply(build_udp_assoc_package(in.udp)))
                EXCEPT !.state = "session_req_udp_accoc"]
        ELSE LET T3 == [T2 EXCEPT !.init_pkg = initial_package_create(in.dest),
                                  !.cipher = TRUE]
             IN  IF ~in.numeric
                 THEN [socket_getaddrinfo(T3, "outgoing")
                         EXCEPT !.state = "session_req_lookup"]
                 ELSE do_req_connect_start(T3, in)

\* do_req_parse that resolves the remote host even when it is numeric.
do_req_parse_always_lookup(T, in) ==
    LET T1 == ASSERT(ASSERT(T, T.incoming.rdstate = "socket_done"),
                     /\ T.incoming.wrstate = "socket_stop"
                     /\ T.outgoing.rdstate = "socket_stop"
                     /\ T.outgoing.wrstate = "socket_stop")
        T2 == set_rdstate(T1, "incoming", "socket_stop")
    IN  IF Neg(T2.incoming.result) THEN tunnel_shutdown(T2)
        ELSE IF in.err = "s5_ok"
        THEN [socket_read(T2, "incoming") EXCEPT !.state = "session_req_parse"]
        ELSE IF in.size # 0 THEN tunnel_shutdown(T2)
        ELSE IF in.err # "s5_exec_cmd" THEN tunnel_shutdown(T2)
        ELSE IF in.cmd = "s5_cmd_tcp_bind" THEN tunnel_shutdown(T2)
        ELSE IF in.cmd = "s5_cmd_udp_assoc"
        THEN [socket_write(T2, "incoming", Reply(build_udp_assoc_package(in.udp)))
                EXCEPT !.state = "session_req_udp_accoc"]
        ELSE [socket_getaddrinfo([T2 EXCEPT !.init_pkg = initial_package_create(in.dest),
                                            !.cipher = TRUE], "outgoing")
                EXCEPT !.state = "session_req_lookup"]

do_req_parse(T, in) ==
    LET T1 == ASSERT(ASSERT(T, T.incoming.rdstate = "socket_done"),
                     /\ T.incoming.wrstate = "socket_stop"
                     /\ T.outgoing.rdstate = "socket_stop"
                     /\ T.outgoing.wrstate = "socket_stop")
        T2 == set_rdstate(T1, "incoming", "socket_stop")
    IN  IF Neg(T2.incoming.result) THEN tunnel_shutdown(T2)
        ELSE IF in.err = "s5_ok"
        THEN [socket_read(T2, "incoming") EXCEPT !.state = "session_req_parse"]
        ELSE IF in.size # 0 THEN tunnel_shutdown(T2)
        ELSE IF in.err # "s5_exec_cmd" THEN tunnel_shutdown(T2)
        ELSE IF in.cmd = "s5_cmd_tcp_bind" THEN tunnel_shutdown(T2)
        ELSE IF in.cmd = "s5_cmd_udp_assoc"
        THEN [socket_write(T2, "incoming", Reply(build_udp_assoc_package(in.udp)))
                EXCEPT !.state = "session_req_udp_accoc"]
        ELSE LET T3 == [T2 EXCEPT !.init_pkg = initial_package_create(in.dest),
                                  !.cipher = TRUE]
             IN  IF ~in.numeric
                 THEN [socket_getaddrinfo(T3, "outgoing")
                         EXCEPT !.state = "session_req_lookup"]
                 ELSE do_req_connect_start(T3, in)


\* do_req_lookup without the test of the resolver's result.
do_req_lookup_unchecked(T, in) ==
    LET T1 == ASSERT(T, AllStop(T))
    IN  do_req_connect_start(T1, in)

do_req_lookup(T, in) ==
    LET T1 == ASSERT(T, AllStop(T))
    IN  IF Neg(T1.outgoing.result)
        THEN [socket_write(T1, "incoming", Reply(<<5, 4, 0, 1, 0, 0, 0, 0, 0, 0>>))
                EXCEPT !.state = "session_kill"]
        ELSE do_req_connect_start(T1, in)


\* tunnel_encrypt that passes the protocol plugin by.
tunnel_encrypt_noplugin(T, len) == T

\* tunnel_encrypt is called on a buffer of len bytes: client_pre_encrypt of
\* the protocol plugin runs first, whatever ss_encrypt then answers.
tunnel_encrypt_called(T, len) == [T EXCEPT !.encrypted = len]

\* do_req_connect handing the initial package to the upstream socket twice.
do_req_connect_twice(T, in) ==
    LET T1 == ASSERT(T, AllStop(T))
        T2 == tunnel_encrypt_called(T1, Len(T1.init_pkg))
    IN  IF T1.outgoing.result = ZERO
        THEN IF in.cipher # "ssr_ok" THEN tunnel_shutdown(T2)
             ELSE [buffer_free(
                       socket_write(socket_write(T2, "outgoing", EncInit(T2.init_pkg)),
                                    "outgoing", EncInit(T2.init_pkg)), "outgoing")
                     EXCEPT !.state = "session_ssr_auth_sent"]
        ELSE [socket_write(T1, "incoming", Reply(<<5, 5, 0, 1, 0, 0, 0, 0, 0, 0>>))
                EXCEPT !.state = "session_kill"]

do_req_connect(T, in) ==
    LET T1 == ASSERT(T, AllStop(T))
        T2 == tunnel_encrypt_called(T1, Len(T1.init_pkg))
    IN  IF T1.outgoing.result = ZERO
        THEN IF in.cipher # "ssr_ok" THEN tunnel_shutdown(T2)
             ELSE [buffer_free(socket_write(T2, "outgoing", EncInit(T2.init_pkg)),
                               "outgoing")
                     EXCEPT !.state = "session_ssr_auth_sent"]
        ELSE [socket_write(T1, "incoming", Reply(<<5, 5, 0, 1, 0, 0, 0, 0, 0, 0>>))
                EXCEPT !.state = "session_kill"]


\* do_ssr_auth_sent without the test of the upstream write's result.
do_ssr_auth_sent_unchecked(T) ==
    LET T1 == ASSERT(T, /\ T.incoming.rdstate = "socket_stop"
                        /\ T.incoming.wrstate = "socket_stop"
                        /\ T.outgoing.rdstate = "socket_stop"
                        /\ T.outgoing.wrstate = "socket_done")
        T2 == set_wrstate(T1, "outgoing", "socket_stop")
    IN  [socket_write(T2, "incoming", Reply(<<5, 0, 0>> \o T2.init_pkg))
           EXCEPT !.state = "session_proxy_start"]

\* do_ssr_auth_sent answering with atyp 1 and an all-zero address and port.
do_ssr_auth_sent_zero(T) ==
    LET T1 == ASSERT(T, /\ T.incoming.rdstate = "socket_stop"
                        /\ T.incoming.wrstate = "socket_stop"
                        /\ T.outgoing.rdstate = "socket_stop"
                        /\ T.outgoing.wrstate = "socket_done")
        T2 == set_wrstate(T1, "outgoing", "socket_stop")
    IN  IF Neg(T2.outgoing.result) THEN tunnel_shutdown(T2)
        ELSE [socket_write(T2, "incoming", Reply(<<5, 0, 0, 1, 0, 0, 0, 0, 0, 0>>))
                EXCEPT !.state = "session_proxy_start"]

do_ssr_auth_sent(T) ==
    LET T1 == ASSERT(T, /\ T.incoming.rdstate = "socket_stop"
                        /\ T.incoming.wrstate = "socket_stop"
                        /\ T.outgoing.rdstate = "socket_stop"
                        /\ T.outgoing.wrstate = "socket_done")
        T2 == set_wrstate(T1, "outgoing", "socket_stop")
    IN  IF Neg(T2.outgoing.result) THEN tunnel_shutdown(T2)
        ELSE [socket_write(T2, "incoming", Reply(<<5, 0, 0>> \o T2.init_pkg))
                EXCEPT !.state = "session_proxy_start"]

\* do_proxy_start that goes on to the state proxy.
do_proxy_start_proxy(T) ==
    LET T1 == ASSERT(T, /\ T.incoming.rdstate = "socket_stop"
                        /\ T.incoming.wrstate = "socket_done"
                        /\ T.outgoing.rdstate = "socket_stop"
                        /\ T.outgoing.wrstate = "socket_stop")
        T2 == set_wrstate(T1, "incoming", "socket_stop")
    IN  IF Neg(T2.incoming.result) THEN tunnel_shutdown(T2)
        ELSE [T2 EXCEPT !.outgoing.reading = "ssr_outgoing_read_done_cb",
                        !.incoming.reading = "ssr_incoming_read_done_cb",
                        !.state = "session_proxy"]

do_proxy_start(T) ==
    LET T1 == ASSERT(T, /\ T.incoming.rdstate = "socket_stop"
                        /\ T.incoming.wrstate = "socket_done"
                        /\ T.outgoing.rdstate = "socket_stop"
                        /\ T.outgoing.wrstate = "socket_stop")
        T2 == set_wrstate(T1, "incoming", "socket_stop")
    IN  IF Neg(T2.incoming.result) THEN tunnel_shutdown(T2)
        ELSE [T2 EXCEPT !.outgoing.reading = "ssr_outgoing_read_done_cb",
                        !.incoming.reading = "ssr_incoming_read_done_cb"]

\* socket_cycle returns the tunnel and the C return value.
socket_cycle(T, a, b) ==
    IF Neg(T[a].result) \/ Neg(T[b].result) THEN [t |-> T, rc |-> -1]
    ELSE LET T1 == IF T[a].wrstate = "socket_done"
                   THEN set_wrstate(T, a, "socket_stop") ELSE T
         IN  IF T1[a].wrstate = "socket_stop"
             THEN IF T1[b].rdstate = "socket_stop"
                  THEN [t |-> socket_read(T1, b), rc |-> 0]
                  ELSE IF T1[b].rdstate = "socket_done"
                  THEN [t |-> set_rdstate(socket_write(T1, a, Chunk(T1[b].nrecv)),
                                   b, "socket_stop"), rc |-> 0]
                  ELSE [t |-> T1, rc |-> 0]
             ELSE [t |-> T1, rc |-> 0]

do_proxy(T) ==
    LET T1 == [T EXCEPT !.state = "session_proxy"]
        r1 == socket_cycle(T1, "incoming", "outgoing")
        r2 == socket_cycle(r1.t, "outgoing", "incoming")
    IN  IF r1.rc # 0 THEN tunnel_shutdown(r1.t)
        ELSE IF r2.rc # 0 THEN tunnel_shutdown(r2.t)
        ELSE r2.t

\* The switch of do_next.
do_next_switch(T, in) ==
    CASE T.state = "session_handshake" -> do_handshake(T, in)
      [] T.state = "session_handshake_auth" -> do_handshake_auth(T)
      [] T.state = "session_req_start" -> do_req_start(T)
      [] T.state = "session_req_parse" -> do_req_parse(T, in)
      [] T.state = "session_req_udp_accoc" -> socket_read(T, "incoming")
      [] T.state = "session_req_lookup" -> do_req_lookup(T, in)
      [] T.state = "session_req_connect" -> do_req_connect(T, in)
      [] T.state = "session_ssr_auth_sent" -> do_ssr_auth_sent(T)
      [] T.state = "session_proxy_start" -> do_proxy_start(T)
      [] T.state = "session_proxy" -> do_proxy(T)
      [] T.state = "session_kill" -> tunnel_shutdown(T)
      [] OTHER -> ASSERT(T, FALSE)

\* do_next: T.next_failed tells that an ASSERT failed in a call of do_next,
\* that is in a state handler or in what it called.
do_next(T, in) ==
    LET R == do_next_switch([T EXCEPT !.assert_failed = FALSE], in)
    IN  [R EXCEPT !.assert_failed = T.assert_failed \/ R.assert_failed,
                  !.next_failed = T.next_failed \/ R.assert_failed,
                  !.in_next = TRUE]

(***************************************************************************)
(* The inputs a callback running do_next can meet in the given state.      *)
(***************************************************************************)
Inputs(T) ==
    IF T.state = "session_handshake" THEN s5_parse(T.state)
    ELSE IF T.state = "session_req_parse"
    THEN {[p EXCEPT !.numeric = n, !.access = a, !.connect_err = e, !.udp = u] :
            p \in s5_parse(T.state), n \in BOOLEAN, a \in BOOLEAN,
            e \in BOOLEAN, u \in BOOLEAN}
    ELSE IF T.state = "session_req_lookup"
    THEN {[NoInput EXCEPT !.access = a, !.connect_err = e] :
            a \in BOOLEAN, e \in BOOLEAN}
    ELSE IF T.state = "session_req_connect"
    THEN {[NoInput EXCEPT !.cipher = r] :
            r \in {"ssr_ok", "ssr_error_invalid_password"}}
    ELSE {NoInput}

\* Verdicts of tunnel_encrypt on a chunk read from the client.
EncryptOutcomes ==
    {[NoInput EXCEPT !.cipher = r, !.len = n] :
        r \in {"ssr_ok", "ssr_error_invalid_password"}, n \in {0, 1}}

\* Verdicts of tunnel_decrypt on a chunk read from upstream; a feedback
\* buffer comes with an empty payload, or with an error of a later stage.
DecryptOutcomes ==
    {o \in {[NoInput EXCEPT !.cipher = r, !.len = n, !.feedback = f] :
              r \in {"ssr_ok", "ssr_error_client_decode",
                     "ssr_error_invalid_password",
                     "ssr_error_client_post_decrypt"},
              n \in {0, 1}, f \in BOOLEAN} :
        (o.feedback /\ o.cipher = "ssr_ok") => o.len = 0}

(***************************************************************************)
(* The libuv callbacks, as functions of the tunnel.                        *)
(***************************************************************************)

\* socket_timer_expire_cb that records the timeout and leaves the tunnel open.
socket_timer_expire_cb_noshutdown(T, c) ==
    [T EXCEPT ![c].timer = FALSE, ![c].result = "UV_ETIMEDOUT"]

socket_timer_expire_cb(T, c) ==
    LET T1 == [T EXCEPT ![c].timer = FALSE, ![c].result = "UV_ETIMEDOUT"]
    IN  IF tunnel_is_dead(T1) THEN T1 ELSE tunnel_shutdown(T1)

socket_getaddrinfo_done_cb(T, c, status, in) ==
    LET T1 == [T EXCEPT ![c].req = "none", ![c].result = status]
    IN  IF tunnel_is_dead(T1) THEN T1 ELSE do_next(T1, in)

socket_connect_done_cb(T, c, status, in) ==
    LET T1 == [T EXCEPT ![c].req = "none", ![c].result = status]
    IN  IF tunnel_is_dead(T1) THEN T1
        ELSE IF status \in {"UV_ECANCELED", "UV_ECONNREFUSED"}
        THEN tunnel_shutdown(T1)
        ELSE do_next(T1, in)

socket_read_done_cb(T, c, nread, in) ==
    LET T1 == [T EXCEPT ![c].reading = "none"]
    IN  IF tunnel_is_dead(T1) THEN T1
        ELSE IF nread # NREAD
        THEN LET T2 == ASSERT(T1, nread \in {"UV_EOF", "UV_ECONNRESET"})
             IN  IF Neg(nread) THEN tunnel_shutdown(T2) ELSE T2
        ELSE LET T2 == ASSERT(T1, T1[c].rdstate = "socket_busy")
             IN  do_next([set_rdstate(T2, c, "socket_done")
                                      EXCEPT ![c].result = nread], in)


\* socket_write_done_cb without the tunnel_is_dead test.
socket_write_done_cb_nodead(T, c, status, in) ==
    LET T1 == [T EXCEPT ![c].writes = Tail(@), ![c].held = Tail(@)]
    IN  IF status = "UV_ECANCELED" THEN tunnel_shutdown(T1)
        ELSE LET T2 == ASSERT(T1, T1[c].wrstate = "socket_busy")
             IN  do_next([set_wrstate(T2, c, "socket_done")
                                      EXCEPT ![c].result = status], in)

socket_write_done_cb(T, c, status, in) ==
    LET T1 == [T EXCEPT ![c].writes = Tail(@), ![c].held = Tail(@)]
    IN  IF tunnel_is_dead(T1) THEN T1
        ELSE IF status = "UV_ECANCELED" THEN tunnel_shutdown(T1)
        ELSE LET T2 == ASSERT(T1, T1[c].wrstate = "socket_busy")
             IN  do_next([set_wrstate(T2, c, "socket_done")
                                      EXCEPT ![c].result = status], in)

\* ssr_write_done_cb without the tunnel_is_dead test.
ssr_write_done_cb_nodead(T, c, status) ==
    LET T1 == [T EXCEPT ![c].writes = Tail(@), ![c].held = Tail(@)]
    IN  IF Neg(status) THEN tunnel_shutdown(T1)
        ELSE T1

ssr_write_done_cb(T, c, status) ==
    LET T1 == [T EXCEPT ![c].writes = Tail(@), ![c].held = Tail(@)]
    IN  IF tunnel_is_dead(T1) THEN T1
        ELSE IF Neg(status) THEN tunnel_shutdown(T1)
        ELSE T1


\* ssr_outgoing_read_done_cb that goes on after tunnel_decrypt failed.
ssr_outgoing_read_done_cb_onerror(T, nread, in) ==
    IF tunnel_is_dead(T) THEN T
    ELSE LET T1 == socket_timer_reset(T, "outgoing")
         IN  IF nread # NREAD
             THEN IF Neg(nread) THEN tunnel_shutdown(T1) ELSE T1
             ELSE LET T2 == [T1 EXCEPT !.outgoing.nrecv = @ + 1]
                      T4 == buffer_free(
                                ssr_write(T2, "outgoing", Feedback(T2.outgoing.nrecv)),
                                "outgoing")
                      T5 == [socket_read_stop(T4, "incoming")
                               EXCEPT !.incoming.reading = "ssr_incoming_read_done_cb"]
                      T6 == IF in.feedback THEN T5 ELSE T2
                  IN  IF in.len > 0
                      THEN buffer_free(
                               ssr_write(T6, "incoming", Chunk(T6.outgoing.nrecv)),
                               "incoming")
                      ELSE T6

ssr_outgoing_read_done_cb(T, nread, in) ==
    IF tunnel_is_dead(T) THEN T
    ELSE LET T1 == socket_timer_reset(T, "outgoing")
         IN  IF nread # NREAD
             THEN IF Neg(nread) THEN tunnel_shutdown(T1) ELSE T1
             ELSE LET T2 == [T1 EXCEPT !.outgoing.nrecv = @ + 1]
                      T3 == ASSERT(T2, in.len = 0)
                      T4 == buffer_free(
                                ssr_write(T3, "outgoing", Feedback(T3.outgoing.nrecv)),
                                "outgoing")
                      T5 == [socket_read_stop(T4, "incoming")
                               EXCEPT !.incoming.reading = "ssr_incoming_read_done_cb"]
                      T6 == IF in.feedback THEN T5 ELSE T2
                  IN  IF in.cipher # "ssr_ok" THEN tunnel_shutdown(T2)
                      ELSE IF in.len > 0
                      THEN buffer_free(
                               ssr_write(T6, "incoming", Chunk(T6.outgoing.nrecv)),
                               "incoming")
                      ELSE T6

\* ssr_incoming_read_done_cb that keeps reading after an empty result.
ssr_incoming_read_done_cb_nopause(T, nread, in) ==
    IF tunnel_is_dead(T) THEN T
    ELSE LET T1 == socket_timer_reset(T, "incoming")
         IN  IF nread # NREAD
             THEN IF Neg(nread) THEN tunnel_shutdown(T1) ELSE T1
             ELSE LET T2 == tunnel_encrypt_called(
                                [T1 EXCEPT !.incoming.nrecv = @ + 1], 1)
                  IN  IF in.cipher # "ssr_ok" THEN tunnel_shutdown(T2)
                      ELSE IF in.len > 0
                      THEN buffer_free(
                               ssr_write(T2, "outgoing", Chunk(T2.incoming.nrecv)),
                               "outgoing")
                      ELSE T2

ssr_incoming_read_done_cb(T, nread, in) ==
    IF tunnel_is_dead(T) THEN T
    ELSE LET T1 == socket_timer_reset(T, "incoming")
         IN  IF nread # NREAD
             THEN IF Neg(nread) THEN tunnel_shutdown(T1) ELSE T1
             ELSE LET T2 == tunnel_encrypt_called(
                                [T1 EXCEPT !.incoming.nrecv = @ + 1], 1)
                  IN  IF in.cipher # "ssr_ok" THEN tunnel_shutdown(T2)
                      ELSE IF in.len > 0
                      THEN buffer_free(
                               ssr_write(T2, "outgoing", Chunk(T2.incoming.nrecv)),
                               "outgoing")
                      ELSE socket_read_stop(T2, "incoming")

(***************************************************************************)
(* The registry.                                                           *)
(***************************************************************************)
objects_container_add(set, obj) == set \cup {obj}
objects_container_remove(set, obj) == set \ {obj}


\* tunnel_release with the test made one release early.
tunnel_release_early(T) ==
    LET T1 == [T EXCEPT !.ref_count = @ - 1]
    IN  /\ tunnel' = T1
        /\ IF T1.ref_count <= 1
           THEN /\ tunnel_set' = objects_container_remove(tunnel_set, TunnelId)
                /\ alloc' = "freed"
                /\ frees' = frees + 1
           ELSE UNCHANGED <<tunnel_set, alloc, frees>>

\* tunnel_release with cached_tunnel_remove moved out of the test.
tunnel_release_unregister(T) ==
    LET T1 == [T EXCEPT !.ref_count = @ - 1]
    IN  /\ tunnel' = T1
        /\ tunnel_set' = objects_container_remove(tunnel_set, TunnelId)
        /\ IF T1.ref_count = 0
           THEN alloc' = "freed" /\ frees' = frees + 1
           ELSE UNCHANGED <<alloc, frees>>

\* tunnel_release: drop one reference of T; at zero unregister and free.
tunnel_release(T) ==
    LET T1 == [T EXCEPT !.ref_count = @ - 1]
    IN  /\ tunnel' = T1
        /\ IF T1.ref_count = 0
           THEN /\ tunnel_set' = objects_container_remove(tunnel_set, TunnelId)
                /\ alloc' = "freed"
                /\ frees' = frees + 1
           ELSE UNCHANGED <<tunnel_set, alloc, frees>>

(***************************************************************************)
(* Actions: one per event the loop delivers.                               *)
(***************************************************************************)

(***************************************************************************)
(* The cipher pipeline of ssr_executive.c: tunnel_encrypt, tunnel_decrypt. *)
(* A buffer is its length and the stages that were run on it, in order.    *)
(***************************************************************************)
NULL == [null |-> TRUE, len |-> 0, hist |-> <<>>]

buffer_alloc == [null |-> FALSE, len |-> 0, hist |-> <<>>]

\* One plugin callback or cipher call on buf, leaving it len bytes long.
Stage(buf, name, len) == [buf EXCEPT !.len = len, !.hist = Append(@, name)]

\* env->protocol_plugin, env->obfs_plugin and the callbacks they have.
PluginTables ==
    [protocol_plugin : BOOLEAN, client_pre_encrypt : BOOLEAN,
     client_post_decrypt : BOOLEAN, obfs_plugin : BOOLEAN,
     client_encode : BOOLEAN, client_decode : BOOLEAN]

\* What the stages answer in one call: lengths returned by the plugin
\* callbacks, err of ss_encrypt / ss_decrypt, needsendback of client_decode.
StageOutcomes ==
    [pre_len : {0, 2}, err : {0, -1}, cipher_len : {1, 3}, encode_len : {0, 4},
     decode_len : {-1, 0, 2}, needsendback : BOOLEAN, post_len : {-1, 0, 1}]


\* tunnel_encrypt that runs client_encode whatever ss_encrypt returned.
tunnel_encrypt_encode_always(env, buf, o) ==
    LET b1 == IF env.protocol_plugin /\ env.client_pre_encrypt
              THEN Stage(buf, "client_pre_encrypt", o.pre_len) ELSE buf
        b2 == Stage(b1, "ss_encrypt", IF o.err = 0 THEN o.cipher_len ELSE b1.len)
    IN  [ret |-> IF o.err # 0 THEN "ssr_error_invalid_password" ELSE "ssr_ok",
         buf |-> IF env.obfs_plugin /\ env.client_encode
                 THEN Stage(b2, "client_encode", o.encode_len) ELSE b2,
         feedback |-> NULL]

tunnel_encrypt(env, buf, o) ==
    LET b1 == IF env.protocol_plugin /\ env.client_pre_encrypt
              THEN Stage(buf, "client_pre_encrypt", o.pre_len) ELSE buf
        b2 == Stage(b1, "ss_encrypt", IF o.err = 0 THEN o.cipher_len ELSE b1.len)
    IN  IF o.err # 0
        THEN [ret |-> "ssr_error_invalid_password", buf |-> b2, feedback |-> NULL]
        ELSE [ret |-> "ssr_ok",
              buf |-> IF env.obfs_plugin /\ env.client_encode
                      THEN Stage(b2, "client_encode", o.encode_len) ELSE b2,
              feedback |-> NULL]


\* tunnel_decrypt that runs ss_decrypt on an empty buffer too.
tunnel_decrypt_empty_too(env, buf, o) ==
    LET decode == env.obfs_plugin /\ env.client_decode
        b1 == IF decode
              THEN Stage(buf, "client_decode",
                         IF o.decode_len < 0 THEN buf.len ELSE o.decode_len)
              ELSE buf
        sendback == IF decode /\ o.needsendback /\ env.client_encode
                    THEN Stage(buffer_alloc, "client_encode", o.encode_len)
                    ELSE NULL
        b2 == Stage(b1, "ss_decrypt", IF o.err = 0 THEN o.cipher_len ELSE b1.len)
        post == env.protocol_plugin /\ env.client_post_decrypt
        b3 == IF post
              THEN Stage(b2, "client_post_decrypt",
                         IF o.post_len < 0 THEN b2.len ELSE o.post_len)
              ELSE b2
    IN  IF decode /\ o.decode_len < 0
        THEN [ret |-> "ssr_error_client_decode", buf |-> b1, feedback |-> NULL]
        ELSE IF o.err # 0
        THEN [ret |-> "ssr_error_invalid_password", buf |-> b2, feedback |-> sendback]
        ELSE IF post /\ o.post_len < 0
        THEN [ret |-> "ssr_error_client_post_decrypt", buf |-> b3,
              feedback |-> sendback]
        ELSE [ret |-> "ssr_ok", buf |-> b3, feedback |-> sendback]

tunnel_decrypt(env, buf, o) ==
    LET decode == env.obfs_plugin /\ env.client_decode
        b1 == IF decode
              THEN Stage(buf, "client_decode",
                         IF o.decode_len < 0 THEN buf.len ELSE o.decode_len)
              ELSE buf
        sendback == IF decode /\ o.needsendback /\ env.client_encode
                    THEN Stage(buffer_alloc, "client_encode", o.encode_len)
                    ELSE NULL
        b2 == IF b1.len > 0
              THEN Stage(b1, "ss_decrypt", IF o.err = 0 THEN o.cipher_len ELSE b1.len)
              ELSE b1
        post == env.protocol_plugin /\ env.client_post_decrypt
        b3 == IF post
              THEN Stage(b2, "client_post_decrypt",
                         IF o.post_len < 0 THEN b2.len ELSE o.post_len)
              ELSE b2
    IN  IF decode /\ o.decode_len < 0
        THEN [ret |-> "ssr_error_client_decode", buf |-> b1, feedback |-> NULL]
        ELSE IF b1.len > 0 /\ o.err # 0
        THEN [ret |-> "ssr_error_invalid_password", buf |-> b2, feedback |-> sendback]
        ELSE IF post /\ o.post_len < 0
        THEN [ret |-> "ssr_error_client_post_decrypt", buf |-> b3,
              feedback |-> sendback]
        ELSE [ret |-> "ssr_ok", buf |-> b3, feedback |-> sendback]

\* No pipeline call was made yet.
tunnel_cipher_none ==
    [op |-> "none",
     env |-> [protocol_plugin |-> FALSE, client_pre_encrypt |-> FALSE,
              client_post_decrypt |-> FALSE, obfs_plugin |-> FALSE,
              client_encode |-> FALSE, client_decode |-> FALSE],
     o |-> CHOOSE o \in StageOutcomes : TRUE,
     arg |-> buffer_alloc, ret |-> "ssr_ok", buf |-> buffer_alloc,
     feedback |-> NULL]


(***************************************************************************)
(* Byte strings of the auth_aes128 plugin.  A string is a sequence of      *)
(* cells, each a run of n bytes: "byte" a byte of value v, "zero" calloc'ed*)
(* bytes, "data" the bytes v .. v+n-1 of the plaintext, "rand" bytes       *)
(* v .. v+n-1 of the rand_bytes draw key, "hmac" bytes v .. v+n-1 of the   *)
(* HMAC of the string over under the key key, "aes" bytes of the AES       *)
(* block of over, "time" and "uid" the clock and the user id.              *)
(***************************************************************************)
Cell(k, key, over, v, n) == [k |-> k, key |-> key, over |-> over, v |-> v, n |-> n]

Byte(b) == Cell("byte", 0, <<>>, b % 256, 1)

Run(k, key, v, n) == IF n = 0 THEN <<>> ELSE <<Cell(k, key, <<>>, v, n)>>

RECURSIVE Size(_)
Size(s) == IF s = <<>> THEN 0 ELSE Head(s).n + Size(Tail(s))

RECURSIVE Take(_, _)
Take(s, k) ==
    IF k <= 0 \/ s = <<>> THEN <<>>
    ELSE IF Head(s).n <= k THEN <<Head(s)>> \o Take(Tail(s), k - Head(s).n)
    ELSE <<[Head(s) EXCEPT !.n = k]>>

RECURSIVE Drop(_, _)
Drop(s, k) ==
    IF k <= 0 \/ s = <<>> THEN s
    ELSE IF Head(s).n <= k THEN Drop(Tail(s), k - Head(s).n)
    ELSE <<[Head(s) EXCEPT !.n = @ - k,
                           !.v = IF Head(s).k = "zero" THEN @ ELSE @ + k]>>
         \o Tail(s)

\* Two neighbouring runs are one run.
Joins(a, b) ==
    /\ a.k = b.k /\ a.k # "byte"
    /\ a.key = b.key /\ a.over = b.over
    /\ a.k = "zero" \/ a.v + a.n = b.v

RECURSIVE Norm(_)
Norm(s) ==
    IF Len(s) < 2 THEN s
    ELSE IF Joins(s[1], s[2])
    THEN Norm(<<[s[1] EXCEPT !.n = @ + s[2].n]>> \o Tail(Tail(s)))
    ELSE <<s[1]>> \o Norm(Tail(s))

memcpy(dst, pos, src) ==
    Norm(Take(dst, pos) \o src \o Drop(dst, pos + Size(src)))

\* A uint32_t as its two 16-bit halves.
U32(hi, lo) == [hi |-> hi, lo |-> lo]

Inc32(x) ==
    IF x.lo = 65535 THEN U32((x.hi + 1) % 65536, 0) ELSE U32(x.hi, x.lo + 1)

Gt32(x, y) == x.hi > y.hi \/ (x.hi = y.hi /\ x.lo > y.lo)

memintcopy_lt(x) ==
    <<Byte(x.lo), Byte(x.lo \div 256), Byte(x.hi), Byte(x.hi \div 256)>>

\* The value of a byte; the plugin reads the value of length and position
\* bytes only, which are "byte" cells once the tags have matched.
ByteVal(s, i) ==
    LET c == Take(Drop(s, i), 1)[1] IN IF c.k = "byte" THEN c.v ELSE 255

rand_bytes(id, n) == Run("rand", id, 0, n)

\* ++local->pack_id that leaves the top byte of the id alone.
IncId_low24(id) == IF id % 16777216 = 16777215 THEN id - 16777215 ELSE id + 1

\* A uint32_t id (pack_id, recv_id) is held as the 32-bit integer of the
\* same bits: 0xFFFFFFFF is -1, and ++id takes it to 0.
IncId(id) == IF id = 2147483647 THEN -2147483647 - 1 ELSE id + 1

\* id < other as uint32_t values.
BelowId(id, other) ==
    IF (id < 0) = (other < 0) THEN id < other ELSE other < 0

\* The keys of the plugin's HMACs: user_key followed by the 4 bytes of an
\* id, user_key alone, and the server's iv followed by its key.
user_key_id(id) == [name |-> "hmac", id |-> id]

user_key == [name |-> "hmac_user_key", id |-> 0]

iv_key == [name |-> "hmac_iv_key", id |-> 0]

\* local->hmac(hash, msg, len, key, key_len): the 20 bytes of the digest.
hmac(msg, key) == <<Cell(key.name, key.id, Norm(msg), 0, 20)>>

\* The values xorshift128plus() can return.
RandVals == {0, 127, 1023}


\* get_rand_len with the mask of the next bucket for 1100 < datalength.
get_rand_len_wide(datalength, fulldatalength, local, server, rand) ==
    IF \/ datalength > 1300
       \/ local.last_data_len > 1300
       \/ fulldatalength >= server.buffer_size
    THEN 0
    ELSE IF datalength > 900 THEN rand % 256
    ELSE IF datalength > 400 THEN rand % 512
    ELSE rand % 1024

get_rand_len(datalength, fulldatalength, local, server, rand) ==
    IF \/ datalength > 1300
       \/ local.last_data_len > 1300
       \/ fulldatalength >= server.buffer_size
    THEN 0
    ELSE IF datalength > 1100 THEN rand % 128
    ELSE IF datalength > 900 THEN rand % 256
    ELSE IF datalength > 400 THEN rand % 512
    ELSE rand % 1024


\* hash of the first msg_len bytes of buf under key, its first n bytes
\* copied to buf + pos.
Tagged(buf, pos, msg_len, key, n) ==
    memcpy(buf, pos, Take(hmac(Take(buf, msg_len), key), n))

\* The bytes pack_data writes for the padding length at outdata + 4.
PaddingLength(rand_len) ==
    IF rand_len < 128 THEN <<Byte(rand_len)>>
    ELSE <<Byte(255), Byte(rand_len), Byte(rand_len \div 256)>>

\* pack_data that writes the length without the 4 bytes of the last tag.
auth_aes128_sha1_pack_data_short(data, datalength, local, rand_len, out_size) ==
    [local |-> [local EXCEPT !.pack_id = IncId(@)],
     out |-> Tagged(
                 memcpy(
                     Tagged(
                         memcpy(
                             memcpy(
                                 memcpy(Run("zero", 0, 0, out_size),
                                        rand_len + 4, data),
                                 0, <<Byte(out_size - 4),
                                      Byte((out_size - 4) \div 256)>>),
                             4, rand_bytes(local.pack_id, rand_len)),
                         2, 2, user_key_id(local.pack_id), 2),
                     4, PaddingLength(rand_len)),
                 out_size - 4, out_size - 4, user_key_id(local.pack_id), 4),
     ret |-> out_size]

\* pack_data that builds the key of the last tag after ++pack_id.
auth_aes128_sha1_pack_data_rekey(data, datalength, local, rand_len, out_size) ==
    [local |-> [local EXCEPT !.pack_id = IncId(@)],
     out |-> Tagged(
                 memcpy(
                     Tagged(
                         memcpy(
                             memcpy(
                                 memcpy(Run("zero", 0, 0, out_size),
                                        rand_len + 4, data),
                                 0, <<Byte(out_size), Byte(out_size \div 256)>>),
                             4, rand_bytes(local.pack_id, rand_len)),
                         2, 2, user_key_id(local.pack_id), 2),
                     4, PaddingLength(rand_len)),
                 out_size - 4, out_size - 4,
                 user_key_id(IncId(local.pack_id)), 4),
     ret |-> out_size]

\* The body of pack_data once rand_len and out_size are known, its writes
\* to outdata from the first (innermost) to the last: the payload, the
\* length, the random bytes, the first tag, the padding length, and, with
\* pack_id incremented but the key as built before, the last tag.
auth_aes128_sha1_pack_data_sized(data, datalength, local, rand_len, out_size) ==
    [local |-> [local EXCEPT !.pack_id = IncId(@)],
     out |-> Tagged(
                 memcpy(
                     Tagged(
                         memcpy(
                             memcpy(
                                 memcpy(Run("zero", 0, 0, out_size),
                                        rand_len + 4, data),
                                 0, <<Byte(out_size), Byte(out_size \div 256)>>),
                             4, rand_bytes(local.pack_id, rand_len)),
                         2, 2, user_key_id(local.pack_id), 2),
                     4, PaddingLength(rand_len)),
                 out_size - 4, out_size - 4, user_key_id(local.pack_id), 4),
     ret |-> out_size]

auth_aes128_sha1_pack_data_rand(data, datalength, local, rand_len) ==
    auth_aes128_sha1_pack_data_sized(data, datalength, local, rand_len,
                                     rand_len + datalength + 8)

auth_aes128_sha1_pack_data(data, datalength, fulldatalength, local, server, rand) ==
    auth_aes128_sha1_pack_data_rand(
        data, datalength, local,
        get_rand_len(datalength, fulldatalength, local, server, rand) + 1)

\* ++global->connection_id and the re-seeding without the 24-bit mask.
NextConnection_nomask(global, rands) ==
    IF Gt32(Inc32(global.connection_id), U32(65280, 0))
    THEN [local_client_id |-> global.local_client_id + 1,
          connection_id |-> rands.conn]
    ELSE [global EXCEPT !.connection_id = Inc32(@)]

\* ++global->connection_id and the re-seeding of pack_auth_data.
\* rands.conn is the four random bytes of a re-seeded connection_id.
NextConnection(global, rands) ==
    IF Gt32(Inc32(global.connection_id), U32(65280, 0))
    THEN [local_client_id |-> global.local_client_id + 1,
          connection_id |-> U32(rands.conn.hi % 256, rands.conn.lo)]
    ELSE [global EXCEPT !.connection_id = Inc32(@)]

\* encrypt[0..19]: the uid and the AES block of the 16 bytes time,
\* local_client_id, connection_id, out_size, rand_len.
AuthBlock(g, out_size, rand_len) ==
    Run("uid", 0, 0, 4)
    \o <<Cell("aes", 0,
              Run("time", 0, 0, 4)
              \o Run("client_id", g.local_client_id, 0, 4)
              \o memintcopy_lt(g.connection_id)
              \o <<Byte(out_size), Byte(out_size \div 256),
                   Byte(rand_len), Byte(rand_len \div 256)>>,
              0, 16)>>

\* The body of pack_auth_data once rand_len and the global data are known,
\* its writes to outdata from the first (innermost) to the last: the random
\* padding, the random byte, its tag, the 24-byte block with its own tag,
\* the payload, the last tag.
auth_aes128_sha1_pack_auth_data_sized(g, local, data, datalength, rand_len, data_offset, out_size) ==
    [global |-> g, local |-> local,
     out |-> Tagged(
                 memcpy(
                     memcpy(
                         Tagged(
                             memcpy(
                                 memcpy(Run("zero", 0, 0, out_size),
                                        data_offset - rand_len,
                                        rand_bytes(0, rand_len)),
                                 0, rand_bytes(-1, 1)),
                             1, 1, iv_key, 6),
                         7, Tagged(AuthBlock(g, out_size, rand_len)
                                   \o Run("zero", 0, 0, 4), 20, 20, iv_key, 4)),
                     data_offset, data),
                 out_size - 4, out_size - 4, user_key, 4),
     ret |-> out_size]

auth_aes128_sha1_pack_auth_data_rand(g, local, data, datalength, rand_len) ==
    auth_aes128_sha1_pack_auth_data_sized(
        g, local, data, datalength, rand_len, rand_len + 16 + 4 + 4 + 7,
        rand_len + 16 + 4 + 4 + 7 + datalength + 4)

\* rands.auth is the xorshift128plus() value of the padding length.
auth_aes128_sha1_pack_auth_data(global, server, local, data, datalength, rands) ==
    auth_aes128_sha1_pack_auth_data_rand(
        NextConnection(global, rands), local, data, datalength,
        IF datalength > 400 THEN rands.auth % 512 ELSE rands.auth % 1024)

RECURSIVE Packed(_, _, _, _, _, _, _)

\* PackUnits with units of 1000 bytes.
RECURSIVE PackUnits_1000(_, _, _, _, _, _, _)
PackUnits_1000(local, data, len, datalength, server, rand, chunks) ==
    IF len > 0
    THEN LET n == IF len > 1000 THEN 1000 ELSE len
         IN  Packed(auth_aes128_sha1_pack_data(Take(data, n), n, datalength,
                                               local, server, rand),
                    Drop(data, n), len - n, datalength, server, rand, chunks)
    ELSE [local |-> local, chunks |-> chunks]

\* The while loop and the last pack_data of client_pre_encrypt: a pack of
\* 2000 bytes while more than 2000 are left, then a pack of what is left.
\* chunks are the packs laid in out_buffer so far.
RECURSIVE PackUnits(_, _, _, _, _, _, _)
PackUnits(local, data, len, datalength, server, rand, chunks) ==
    IF len > 0
    THEN LET n == IF len > 2000 THEN 2000 ELSE len
         IN  Packed(auth_aes128_sha1_pack_data(Take(data, n), n, datalength,
                                               local, server, rand),
                    Drop(data, n), len - n, datalength, server, rand, chunks)
    ELSE [local |-> local, chunks |-> chunks]

\* buffer += pack_len; data += n; len -= n, and on with the loop.
Packed(p, data, len, datalength, server, rand, chunks) ==
    PackUnits(p.local, data, len, datalength, server, rand,
              Append(chunks, p.out))

RECURSIVE Concat(_)
Concat(ss) == IF ss = <<>> THEN <<>> ELSE Head(ss) \o Concat(Tail(ss))

\* The end of client_pre_encrypt: last_data_len, and the packs moved to
\* the caller's buffer.
PreEncrypted(obfs_, global, u, datalength) ==
    [obfs |-> [obfs_ EXCEPT
                 !.l_data = [u.local EXCEPT !.last_data_len = datalength],
                 !.g_data = global],
     chunks |-> u.chunks,
     buf |-> Concat(u.chunks),
     ret |-> Size(Concat(u.chunks))]

\* HeaderPacked that leaves has_sent_header as it was.
HeaderPacked_unset(obfs_, a, data, len, datalength, rands) ==
    PreEncrypted(obfs_, a.global,
                 PackUnits(a.local, data, len, datalength, obfs_.server,
                           rands.data, <<a.out>>),
                 datalength)

\* client_pre_encrypt after the auth chunk a of a first call.
HeaderPacked(obfs_, a, data, len, datalength, rands) ==
    PreEncrypted(obfs_, a.global,
                 PackUnits([a.local EXCEPT !.has_sent_header = 1], data, len,
                           datalength, obfs_.server, rands.data, <<a.out>>),
                 datalength)

HeadSize(datalength) == IF 1200 > datalength THEN datalength ELSE 1200

auth_aes128_sha1_client_pre_encrypt(obfs_, plaindata, datalength, rands) ==
    IF datalength > 0 /\ obfs_.l_data.has_sent_header = 0
    THEN HeaderPacked(obfs_,
                      auth_aes128_sha1_pack_auth_data(
                          obfs_.g_data, obfs_.server, obfs_.l_data,
                          Take(plaindata, HeadSize(datalength)),
                          HeadSize(datalength), rands),
                      Drop(plaindata, HeadSize(datalength)),
                      datalength - HeadSize(datalength), datalength, rands)
    ELSE PreEncrypted(obfs_, obfs_.g_data,
                      PackUnits(obfs_.l_data, plaindata, datalength,
                                datalength, obfs_.server, rands.data, <<>>),
                      datalength)

\* pack_id after the pack_data calls of client_pre_encrypt on len bytes:
\* one ++local->pack_id for every 2000 bytes and one for what is left.
RECURSIVE PackIdAfter(_, _)
PackIdAfter(pack_id, len) ==
    IF len > 0
    THEN PackIdAfter(IncId(pack_id), IF len > 2000 THEN len - 2000 ELSE 0)
    ELSE pack_id

\* What client_pre_encrypt leaves in the instance and in the global data,
\* without the bytes it packs.
client_pre_encrypt_obfs(obfs_, datalength, rands) ==
    LET first == datalength > 0 /\ obfs_.l_data.has_sent_header = 0
        len == IF first THEN datalength - HeadSize(datalength) ELSE datalength
    IN  [obfs_ EXCEPT
           !.g_data = IF first THEN NextConnection(@, rands) ELSE @,
           !.l_data = [@ EXCEPT
                         !.has_sent_header = IF first THEN 1 ELSE @,
                         !.pack_id = PackIdAfter(@, len),
                         !.last_data_len = datalength]]

\* Little-endian 16-bit value at recv_buffer + i.
LE16At(recv_buffer, i) ==
    ByteVal(recv_buffer, i + 1) * 256 + ByteVal(recv_buffer, i)

\* pos of the payload in a chunk whose byte 4 is b4.
PayloadPos(recv_buffer, b4) ==
    IF b4 < 255 THEN b4 + 4 ELSE LE16At(recv_buffer, 5) + 4

RECURSIVE Framed(_, _, _, _)

RECURSIVE Unframed(_, _, _, _, _)

\* The while loop of client_post_decrypt on recv_buffer.
RECURSIVE Unpack(_, _, _)
Unpack(recv_buffer, recv_id, out) ==
    IF ~(Size(recv_buffer) > 4)
    THEN [recv_buffer |-> recv_buffer, recv_id |-> recv_id, out |-> out,
          error |-> 0]
    ELSE IF Take(hmac(Take(recv_buffer, 2), user_key_id(recv_id)), 2)
               # Norm(Take(Drop(recv_buffer, 2), 2))
    THEN [recv_buffer |-> <<>>, recv_id |-> recv_id, out |-> out, error |-> 1]
    ELSE Framed(recv_buffer, recv_id, out, LE16At(recv_buffer, 0))

\* The loop body that accepts a length of 8192.
Framed_upto8192(recv_buffer, recv_id, out, length) ==
    IF length > 8192 \/ length < 8
    THEN [recv_buffer |-> <<>>, recv_id |-> recv_id, out |-> out, error |-> 1]
    ELSE IF length > Size(recv_buffer)
    THEN [recv_buffer |-> recv_buffer, recv_id |-> recv_id, out |-> out,
          error |-> 0]
    ELSE IF Take(hmac(Take(recv_buffer, length - 4), user_key_id(recv_id)), 4)
               # Norm(Take(Drop(recv_buffer, length - 4), 4))
    THEN [recv_buffer |-> <<>>, recv_id |-> recv_id, out |-> out, error |-> 1]
    ELSE Unframed(recv_buffer, recv_id, out, length,
                  PayloadPos(recv_buffer, ByteVal(recv_buffer, 4)))

\* The loop body once the first tag has matched and length is read.
Framed(recv_buffer, recv_id, out, length) ==
    IF length >= 8192 \/ length < 8
    THEN [recv_buffer |-> <<>>, recv_id |-> recv_id, out |-> out, error |-> 1]
    ELSE IF length > Size(recv_buffer)
    THEN [recv_buffer |-> recv_buffer, recv_id |-> recv_id, out |-> out,
          error |-> 0]
    ELSE IF Take(hmac(Take(recv_buffer, length - 4), user_key_id(recv_id)), 4)
               # Norm(Take(Drop(recv_buffer, length - 4), 4))
    THEN [recv_buffer |-> <<>>, recv_id |-> recv_id, out |-> out, error |-> 1]
    ELSE Unframed(recv_buffer, recv_id, out, length,
                  PayloadPos(recv_buffer, ByteVal(recv_buffer, 4)))

\* ++recv_id, the payload copied out, the chunk taken off recv_buffer.
Unframed(recv_buffer, recv_id, out, length, pos) ==
    Unpack(Drop(recv_buffer, length), IncId(recv_id),
           Norm(out \o Take(Drop(recv_buffer, pos), length - pos - 4)))

\* The end of client_post_decrypt that keeps no incomplete chunk.
PostDecrypted_forget(obfs_, plaindata, u) ==
    [obfs |-> [obfs_ EXCEPT !.l_data.recv_buffer = <<>>,
                            !.l_data.recv_id = u.recv_id],
     buf |-> IF u.error = 0 THEN u.out ELSE plaindata,
     ret |-> IF u.error = 0 THEN Size(u.out) ELSE -1]

\* The end of client_post_decrypt: u is what the loop left.
PostDecrypted(obfs_, plaindata, u) ==
    [obfs |-> [obfs_ EXCEPT !.l_data.recv_buffer = u.recv_buffer,
                            !.l_data.recv_id = u.recv_id],
     buf |-> IF u.error = 0 THEN u.out ELSE plaindata,
     ret |-> IF u.error = 0 THEN Size(u.out) ELSE -1]

auth_aes128_sha1_client_post_decrypt(obfs_, plaindata, datalength) ==
    IF Size(obfs_.l_data.recv_buffer) + datalength > 16384
    THEN [obfs |-> obfs_, buf |-> plaindata, ret |-> -1]
    ELSE PostDecrypted(obfs_, plaindata,
                       Unpack(Norm(obfs_.l_data.recv_buffer \o plaindata),
                              obfs_.l_data.recv_id, <<>>))

SSR_BUFF_SIZE == 2048

\* malloc leaves last_data_len as it finds it: last is what it holds.
auth_simple_local_data_init(last) ==
    [has_sent_header |-> 0, recv_buffer |-> <<>>, recv_id |-> 1, pack_id |-> 1,
     last_data_len |-> last]

\* local_client_id is the number of the rand_bytes draw that made it.
auth_simple_init_data(connection_id) ==
    [local_client_id |-> 1, connection_id |-> connection_id]

auth_aes128_sha1_new_obfs(last, connection_id) ==
    [l_data |-> auth_simple_local_data_init(last),
     g_data |-> auth_simple_init_data(connection_id),
     server |-> [buffer_size |-> SSR_BUFF_SIZE]]

\* What last_data_len can hold before its first assignment.
Uninitialized == {0, 1301}

\* connection_id counts up from a 24-bit start, one per tunnel.
ConnectionIds == {U32(0, 7), U32(65279, 65535), U32(65280, 0)}

\* Lengths of the buffers handed to client_pre_encrypt.
DataLengths == {1, 1200, 1201, 2001, 3201}

Rands == [auth : RandVals, data : RandVals, conn : {U32(0, 5), U32(65535, 65535)}]

\* The calls made on the plugin and the bytes between the two directions:
\* the last call, its argument and result, the chunks it packed, the
\* packed bytes so far (framed), how many of them were handed to
\* client_post_decrypt (delivered), where the hand-over may be cut (marks),
\* the bytes client_post_decrypt returned so far (plain), the number of
\* plaintext bytes packed (fed), where the packed chunks end (ends), and
\* what was done to the last piece on its way (damage).
wire_none ==
    [op |-> "none", datalength |-> 0, fulldatalength |-> 0, first |-> FALSE,
     pack_id |-> 1,
     chunks |-> <<>>, ret |-> 0, calls |-> 0, framed |-> <<>>, marks |-> {},
     delivered |-> 0, plain |-> <<>>, fed |-> 0, skipped |-> FALSE,
     overfed |-> FALSE, ends |-> {}, damage |-> "none"]

PluginIdle == UNCHANGED <<tc, obfs, wire>>

\* The plugin instance of the tunnel over a callback that leaves the tunnel
\* as T: tunnel_cipher_create makes it when the request is parsed, and
\* tunnel_encrypt hands the buffer to client_pre_encrypt.
PluginCalled(T) ==
    /\ obfs' =
          LET o == IF T.cipher /\ ~tunnel.cipher
                   THEN [obfs EXCEPT !.l_data = auth_simple_local_data_init(0)]
                   ELSE obfs
              n == T.encrypted
          IN  IF n > 0
              THEN client_pre_encrypt_obfs(
                       o, n, [auth |-> 0, data |-> 0, conn |-> U32(0, 5)])
              ELSE o
    /\ UNCHANGED <<tc, wire>>

TunnelIdle == UNCHANGED <<tunnel, alloc, tunnel_set, frees, uaf>>

CipherIdle == UNCHANGED tc

AuthIdle == UNCHANGED <<obfs, wire>>

Init ==
    /\ tunnel = tunnel_ctx_init
    /\ alloc = "none"
    /\ tunnel_set = {}
    /\ frees = 0
    /\ uaf = FALSE
    /\ tc = tunnel_cipher_none
    /\ obfs = auth_aes128_sha1_new_obfs(0, U32(0, 7))
    /\ wire = wire_none

\* A client connects: the listener calls tunnel_initialize.
tunnel_initialize ==
    /\ alloc = "none"
    /\ tunnel' = socket_read(
                    [tunnel_ctx_init EXCEPT !.incoming.handle = "open",
                                            !.incoming.timer_handle = "open",
                                            !.outgoing.handle = "open",
                                            !.outgoing.timer_handle = "open"],
                    "incoming")
    /\ tunnel_set' = objects_container_add(tunnel_set, TunnelId)
    /\ alloc' = "live"
    /\ UNCHANGED <<frees, uaf>>
    /\ PluginIdle

Live(c) == alloc = "live" /\ tunnel[c].handle = "open"

TimerExpire ==
    \E c \in Sockets :
        /\ alloc = "live"
        /\ tunnel[c].timer_handle = "open"
        /\ tunnel[c].timer
        /\ LET T == socket_timer_expire_cb(Entered(tunnel), c)
           IN  tunnel' = T /\ PluginCalled(T)
        /\ UNCHANGED <<alloc, tunnel_set, frees, uaf>>

\* The resolver request is no handle: its callback comes whatever became
\* of the tunnel, with UV_ECANCELED when uv_cancel took effect.
GetaddrinfoDone ==
    \E c \in Sockets :
        /\ tunnel[c].req = "getaddrinfo"
        /\ IF alloc = "live"
           THEN /\ \E status \in IF tunnel_is_dead(tunnel)
                                 THEN {ZERO, "UV_EAI_NONAME", "UV_ECANCELED"}
                                 ELSE {ZERO, "UV_EAI_NONAME"},
                      in \in Inputs(tunnel) :
                        /\ LET T == socket_getaddrinfo_done_cb(Entered(tunnel), c, status, in)
                           IN  tunnel' = T /\ PluginCalled(T)
                /\ UNCHANGED uaf
           ELSE /\ LET T == [Entered(tunnel) EXCEPT ![c].req = "none"]
                   IN  tunnel' = T /\ PluginCalled(T)
                /\ uaf' = TRUE
        /\ UNCHANGED <<alloc, tunnel_set, frees>>

ConnectDone ==
    \E c \in Sockets :
        /\ alloc = "live"
        /\ tunnel[c].req = "connect"
        /\ tunnel[c].handle \in {"open", "closing"}
        /\ \E status \in IF tunnel[c].handle = "closing"
                         THEN {"UV_ECANCELED"}
                         ELSE {ZERO, "UV_ECONNREFUSED", "UV_ETIMEDOUT"},
              in \in Inputs(tunnel) :
                /\ LET T == socket_connect_done_cb(Entered(tunnel), c, status, in)
                   IN  tunnel' = T /\ PluginCalled(T)
        /\ UNCHANGED <<alloc, tunnel_set, frees, uaf>>

ReadDone ==
    \E c \in Sockets :
        /\ Live(c)
        /\ tunnel[c].reading = "socket_read_done_cb"
        /\ \E nread \in {NREAD, ZERO, "UV_EOF", "UV_ECONNRESET"},
              in \in Inputs(tunnel) :
                /\ nread # NREAD => in = NoInput
                /\ LET T == socket_read_done_cb(Entered(tunnel), c, nread, in)
                   IN  tunnel' = T /\ PluginCalled(T)
        /\ UNCHANGED <<alloc, tunnel_set, frees, uaf>>

\* Writes of one stream complete in the order they were queued; after
\* uv_close the queued ones are called back with UV_ECANCELED.
WriteDone ==
    \E c \in Sockets :
        /\ alloc = "live"
        /\ tunnel[c].handle \in {"open", "closing"}
        /\ tunnel[c].writes # <<>>
        /\ Head(tunnel[c].writes).cb = "socket_write_done_cb"
        /\ \E status \in IF tunnel[c].handle = "closing"
                         THEN {ZERO, "UV_ECANCELED"} ELSE {ZERO, "UV_EPIPE"} :
                /\ LET T == socket_write_done_cb(Entered(tunnel), c, status, NoInput)
                   IN  tunnel' = T /\ PluginCalled(T)
        /\ UNCHANGED <<alloc, tunnel_set, frees, uaf>>

SsrWriteDone ==
    \E c \in Sockets :
        /\ alloc = "live"
        /\ tunnel[c].handle \in {"open", "closing"}
        /\ tunnel[c].writes # <<>>
        /\ Head(tunnel[c].writes).cb = "ssr_write_done_cb"
        /\ \E status \in IF tunnel[c].handle = "closing"
                         THEN {ZERO, "UV_ECANCELED"} ELSE {ZERO, "UV_EPIPE"} :
                /\ LET T == ssr_write_done_cb(Entered(tunnel), c, status)
                   IN  tunnel' = T /\ PluginCalled(T)
        /\ UNCHANGED <<alloc, tunnel_set, frees, uaf>>

SsrOutgoingRead ==
    /\ Live("outgoing")
    /\ tunnel.outgoing.reading = "ssr_outgoing_read_done_cb"
    /\ \E nread \in {NREAD, ZERO, "UV_EOF", "UV_ECONNRESET"},
          in \in DecryptOutcomes :
            /\ nread # NREAD => in = NoInput
            /\ nread = NREAD => tunnel.outgoing.nrecv < MaxChunks
            /\ LET T == ssr_outgoing_read_done_cb(Entered(tunnel), nread, in)
               IN  tunnel' = T /\ PluginCalled(T)
    /\ UNCHANGED <<alloc, tunnel_set, frees, uaf>>

SsrIncomingRead ==
    /\ Live("incoming")
    /\ tunnel.incoming.reading = "ssr_incoming_read_done_cb"
    /\ \E nread \in {NREAD, ZERO, "UV_EOF", "UV_ECONNRESET"},
          in \in EncryptOutcomes :
            /\ nread # NREAD => in = NoInput
            /\ nread = NREAD => tunnel.incoming.nrecv < MaxChunks
            /\ LET T == ssr_incoming_read_done_cb(Entered(tunnel), nread, in)
               IN  tunnel' = T /\ PluginCalled(T)
    /\ UNCHANGED <<alloc, tunnel_set, frees, uaf>>

\* uv_close's callback: a stream's comes after the callbacks of the writes
\* and the connect that were pending on it.
socket_close_done_cb ==
    \E c \in Sockets, h \in {"handle", "timer_handle"} :
        /\ alloc = "live"
        /\ tunnel[c][h] = "closing"
        /\ h = "handle" => tunnel[c].writes = <<>> /\ tunnel[c].req # "connect"
        /\ tunnel_release([Entered(tunnel) EXCEPT ![c][h] = "closed"])
        /\ UNCHANGED uaf
        /\ PluginIdle

Next ==
    \/ tunnel_initialize
    \/ TimerExpire
    \/ GetaddrinfoDone
    \/ ConnectDone
    \/ ReadDone
    \/ WriteDone
    \/ SsrWriteDone
    \/ SsrOutgoingRead
    \/ SsrIncomingRead
    \/ socket_close_done_cb

Spec == Init /\ [][Next]_vars


(***************************************************************************)
(* Properties.                                                             *)
(***************************************************************************)

\* The loop delivers the callback of every uv_close it was asked for, and
\* before it the callbacks of the writes and the connect pending on the
\* closing stream.
LiveSpec ==
    /\ Init /\ [][Next]_vars
    /\ WF_vars(socket_close_done_cb)
    /\ WF_vars(WriteDone)
    /\ WF_vars(SsrWriteDone)
    /\ WF_vars(ConnectDone)


(***************************************************************************)
(* The pipeline functions on their own: any plugin tables, any answers of  *)
(* the stages, a buffer as the tunnel's callbacks pass it (not empty).     *)
(***************************************************************************)
\* The loop runs a timer's callback when its time is over and the callback
\* of every uv_close; the writes and the connect pending on a closing stream
\* are called back before that.  No read, write, connect or resolve on an
\* open stream has to complete.
TimerSpec ==
    /\ Init /\ [][Next]_vars
    /\ WF_vars(TimerExpire)
    /\ WF_vars(socket_close_done_cb)
    /\ WF_vars(tunnel_is_dead(tunnel) /\ WriteDone)
    /\ WF_vars(tunnel_is_dead(tunnel) /\ SsrWriteDone)
    /\ WF_vars(tunnel_is_dead(tunnel) /\ ConnectDone)

NoTunnel ==
    /\ tunnel = tunnel_ctx_init
    /\ alloc = "none"
    /\ tunnel_set = {}
    /\ frees = 0
    /\ uaf = FALSE

CipherInit ==
    /\ NoTunnel
    /\ tc \in {[tunnel_cipher_none EXCEPT !.env = e] : e \in PluginTables}
    /\ obfs = auth_aes128_sha1_new_obfs(0, U32(0, 7))
    /\ wire = wire_none

TunnelEncrypt ==
    /\ tc.op = "none"
    /\ \E o \in StageOutcomes, n \in {1, 5} :
        LET arg == [buffer_alloc EXCEPT !.len = n]
            r == tunnel_encrypt(tc.env, arg, o)
        IN  tc' = [tc EXCEPT !.op = "tunnel_encrypt", !.o = o, !.arg = arg,
                             !.ret = r.ret, !.buf = r.buf,
                             !.feedback = r.feedback]
    /\ TunnelIdle
    /\ AuthIdle

TunnelDecrypt ==
    /\ tc.op = "none"
    /\ \E o \in StageOutcomes, n \in {1, 5} :
        LET arg == [buffer_alloc EXCEPT !.len = n]
            r == tunnel_decrypt(tc.env, arg, o)
        IN  tc' = [tc EXCEPT !.op = "tunnel_decrypt", !.o = o, !.arg = arg,
                             !.ret = r.ret, !.buf = r.buf,
                             !.feedback = r.feedback]
    /\ TunnelIdle
    /\ AuthIdle

CipherNext ==
    \/ TunnelEncrypt
    \/ TunnelDecrypt

CipherSpec == CipherInit /\ [][CipherNext]_vars


(***************************************************************************)
(* get_rand_len on its own.                                                *)
(***************************************************************************)
RandLenInit ==
    /\ NoTunnel
    /\ tc = tunnel_cipher_none
    /\ obfs \in {auth_aes128_sha1_new_obfs(last, U32(0, 7)) :
                    last \in Uninitialized \cup {1300}}
    /\ wire = wire_none

GetRandLen ==
    /\ wire.op = "none"
    /\ \E n \in {1, 400, 401, 900, 901, 1100, 1101, 1300, 1301, 2000},
          full \in {1, 1300, 2047, 2048, 18000},
          rand \in RandVals \cup {128, 255, 256, 511, 512, 1024, 2147483647} :
        wire' = [wire EXCEPT
                   !.op = "get_rand_len", !.datalength = n,
                   !.fulldatalength = full,
                   !.ret = get_rand_len(n, full, obfs.l_data, obfs.server, rand)]
    /\ UNCHANGED obfs
    /\ TunnelIdle
    /\ CipherIdle

RandLenNext == GetRandLen

RandLenSpec == RandLenInit /\ [][RandLenNext]_vars

(***************************************************************************)
(* The packing side of auth_aes128: a new plugin instance, with what the   *)
(* global data can hold after earlier tunnels, and client_pre_encrypt      *)
(* called on one buffer after the other of the plaintext.                  *)
(***************************************************************************)
PackInit ==
    /\ NoTunnel
    /\ tc = tunnel_cipher_none
    /\ obfs \in {auth_aes128_sha1_new_obfs(last, id) :
                    last \in Uninitialized, id \in ConnectionIds}
    /\ wire = wire_none

\* The call returned r.
Called(n, r) ==
    /\ obfs' = r.obfs
    /\ wire' = [wire EXCEPT
                  !.op = "client_pre_encrypt", !.datalength = n,
                  !.first = obfs.l_data.has_sent_header = 0,
                  !.pack_id = obfs.l_data.pack_id,
                  !.chunks = r.chunks, !.ret = r.ret,
                  !.calls = @ + 1, !.fed = @ + n]

ClientPreEncrypt ==
    /\ wire.calls < MaxCalls
    /\ \E n \in DataLengths, rands \in Rands :
        Called(n, auth_aes128_sha1_client_pre_encrypt(
                      obfs, Run("data", 0, wire.fed, n), n, rands))
    /\ TunnelIdle
    /\ CipherIdle

PackNext == ClientPreEncrypt

PackSpec == PackInit /\ [][PackNext]_vars


(***************************************************************************)
(* Both sides of auth_aes128: what client_pre_encrypt packs is handed, in  *)
(* pieces, to client_post_decrypt of an instance with the same keys.  The  *)
(* instance is new, or has sent its auth chunk (a first buffer of 1200     *)
(* bytes, wholly in the auth chunk, which went to the server).             *)
(***************************************************************************)
(***************************************************************************)
(* The global data of the protocol plugin over the tunnels of one          *)
(* environment: init_obfs makes it once, every tunnel_cipher_create makes  *)
(* a new instance that points to it, and the instance's first              *)
(* client_pre_encrypt packs the auth chunk.                                *)
(***************************************************************************)
\* What init_data can leave in connection_id, and what earlier tunnels
\* have taken it to.
EnvConnectionIds == {U32(0, 7), U32(255, 65535), U32(65279, 65535)}

EnvInit ==
    /\ NoTunnel
    /\ tc = tunnel_cipher_none
    /\ obfs \in {auth_aes128_sha1_new_obfs(last, id) :
                    last \in Uninitialized, id \in EnvConnectionIds}
    /\ wire = wire_none

\* tunnel_cipher_create for the next tunnel: a new instance, the same
\* global data.
NewObfs ==
    /\ wire.calls < MaxCalls
    /\ \E last \in Uninitialized :
        obfs' = [obfs EXCEPT !.l_data = auth_simple_local_data_init(last)]
    /\ wire' = [wire EXCEPT !.op = "new_obfs"]
    /\ TunnelIdle
    /\ CipherIdle

EnvNext ==
    \/ NewObfs
    \/ ClientPreEncrypt

EnvSpec == EnvInit /\ [][EnvNext]_vars

(***************************************************************************)
(* client_pre_encrypt on a new instance, with calls that bring no bytes    *)
(* among the others.                                                       *)
(***************************************************************************)
ClientPreEncryptEmpty ==
    /\ wire.calls < MaxCalls
    /\ Called(0, auth_aes128_sha1_client_pre_encrypt(
                     obfs, <<>>, 0, [auth |-> 0, data |-> 0, conn |-> U32(0, 5)]))
    /\ TunnelIdle
    /\ CipherIdle

HeaderNext ==
    \/ ClientPreEncrypt
    \/ ClientPreEncryptEmpty

HeaderSpec == PackInit /\ [][HeaderNext]_vars

HeaderSent ==
    auth_aes128_sha1_client_pre_encrypt(
        auth_aes128_sha1_new_obfs(0, U32(0, 7)), Run("head", 0, 0, 1200), 1200,
        [auth |-> 0, data |-> 0, conn |-> U32(0, 5)]).obfs

RoundInit ==
    /\ NoTunnel
    /\ tc = tunnel_cipher_none
    /\ \E skipped \in BOOLEAN :
        /\ obfs = IF skipped THEN HeaderSent
                  ELSE auth_aes128_sha1_new_obfs(0, U32(0, 7))
        /\ wire = [wire_none EXCEPT !.skipped = skipped]

\* Where the hand-over may be cut: in and after the header of each chunk,
\* before and after its last tag.
RECURSIVE Marks(_, _)
Marks(chunks, base) ==
    IF chunks = <<>> THEN {}
    ELSE {base + 2, base + 4, base + 5, base + Size(Head(chunks)) - 4,
          base + Size(Head(chunks))}
         \cup Marks(Tail(chunks), base + Size(Head(chunks)))

\* Where the chunks end.
RECURSIVE Ends(_, _)
Ends(chunks, base) ==
    IF chunks = <<>> THEN {}
    ELSE {base + Size(Head(chunks))}
         \cup Ends(Tail(chunks), base + Size(Head(chunks)))

\* The random values a call can use: the padding length and the re-seeded
\* connection_id of the auth chunk are drawn in a first call only.
RandsOf(obfs_) ==
    {r \in Rands :
        /\ r.conn = U32(0, 5)
        /\ obfs_.l_data.has_sent_header = 1 => r.auth = 0}

\* The call returned r: its packs are on their way.
Sent(n, r) ==
    /\ obfs' = r.obfs
    /\ wire' = [wire EXCEPT
                  !.op = "client_pre_encrypt", !.datalength = n,
                  !.first = obfs.l_data.has_sent_header = 0,
                  !.pack_id = obfs.l_data.pack_id,
                  !.chunks = r.chunks, !.ret = r.ret,
                  !.calls = @ + 1, !.fed = @ + n,
                  !.framed = @ \o r.buf,
                  !.marks = @ \cup Marks(r.chunks, Size(wire.framed)),
                  !.ends = @ \cup Ends(r.chunks, Size(wire.framed))]

Send ==
    /\ wire.calls < MaxCalls
    /\ wire.ret # -1
    /\ \E n \in {1, 1300, 2001}, rands \in RandsOf(obfs) :
        Sent(n, auth_aes128_sha1_client_pre_encrypt(
                    obfs, Run("data", 0, wire.fed, n), n, rands))
    /\ TunnelIdle
    /\ CipherIdle

\* The next piece ends at one of the next three marks; it is what
\* tunnel_decrypt hands over of one read, SSR_BUFF_SIZE bytes at most.
NextMarks ==
    LET later == {m \in wire.marks : m > wire.delivered}
    IN  {m \in later : /\ Cardinality({k \in later : k < m}) < 3
                       /\ m - wire.delivered <= SSR_BUFF_SIZE}

\* The call on the bytes up to mark m returned r.
Received(m, r) ==
    /\ obfs' = r.obfs
    /\ wire' = [wire EXCEPT
                  !.op = "client_post_decrypt",
                  !.datalength = m - wire.delivered, !.ret = r.ret,
                  !.delivered = m, !.damage = "none",
                  !.plain = IF r.ret >= 0 THEN Norm(@ \o r.buf) ELSE @,
                  !.overfed = @ \/ Size(obfs.l_data.recv_buffer)
                                     + m - wire.delivered > 16384]

Receive ==
    /\ wire.ret # -1
    /\ \E m \in NextMarks :
        Received(m, auth_aes128_sha1_client_post_decrypt(
                        obfs,
                        Take(Drop(wire.framed, wire.delivered),
                             m - wire.delivered),
                        m - wire.delivered))
    /\ TunnelIdle
    /\ CipherIdle

RoundNext ==
    \/ Send
    \/ Receive

RoundSpec == RoundInit /\ [][RoundNext]_vars

(***************************************************************************)
(* client_post_decrypt on what a peer can send: the chunks packed for it,  *)
(* in pieces, whole chunks damaged on their way or made with a length out  *)
(* of range, and more bytes than recv_buffer takes.  The instance is new,  *)
(* has sent its auth chunk, or has packed and unpacked 2^32 - 3 chunks.    *)
(***************************************************************************)
IdStarts == {1, -2}

FrameInit ==
    /\ NoTunnel
    /\ tc = tunnel_cipher_none
    /\ \E skipped \in BOOLEAN, id \in IdStarts :
        /\ ~skipped => id = 1
        /\ obfs = IF skipped
                  THEN [HeaderSent EXCEPT !.l_data.pack_id = id,
                                          !.l_data.recv_id = id]
                  ELSE auth_aes128_sha1_new_obfs(0, U32(0, 7))
        /\ wire = [wire_none EXCEPT !.skipped = skipped]

\* All chunks handed over so far were whole and good, and one more is on
\* its way.
AtChunkStart ==
    /\ wire.skipped
    /\ wire.ret # -1
    /\ obfs.l_data.recv_buffer = <<>>
    /\ wire.delivered < Size(wire.framed)

\* The chunk that starts at delivered.
NextChunk ==
    LET rest == Drop(wire.framed, wire.delivered)
    IN  Take(rest, LE16At(rest, 0))

Damages == {"tag", "last_tag", "payload", "short", "long"}

\* A chunk with one byte of its first tag, its last tag or its payload
\* changed, or with a length of 7 or 8192 under a first tag that matches.
Damaged(chunk, d, id) ==
    CASE d = "tag" -> memcpy(chunk, 2, <<Byte(0)>>)
      [] d = "last_tag" -> memcpy(chunk, Size(chunk) - 1, <<Byte(0)>>)
      [] d = "payload" -> memcpy(chunk, Size(chunk) - 5, <<Byte(0)>>)
      [] d = "short" -> Tagged(memcpy(chunk, 0, <<Byte(7), Byte(0)>>),
                               2, 2, user_key_id(id), 2)
      [] d = "long" -> Tagged(memcpy(chunk, 0, <<Byte(8192), Byte(8192 \div 256)>>),
                              2, 2, user_key_id(id), 2)

\* The call on n bytes, taken == n of them off the wire, returned r.
Mangled(d, n, taken, r) ==
    /\ obfs' = r.obfs
    /\ wire' = [wire EXCEPT
                  !.op = "client_post_decrypt", !.datalength = n,
                  !.ret = r.ret, !.delivered = @ + taken, !.damage = d,
                  !.plain = IF r.ret >= 0 THEN Norm(@ \o r.buf) ELSE @]

ReceiveDamaged ==
    /\ AtChunkStart
    /\ \E d \in Damages :
        Mangled(d, Size(NextChunk), Size(NextChunk),
                auth_aes128_sha1_client_post_decrypt(
                    obfs, Damaged(NextChunk, d, obfs.l_data.recv_id),
                    Size(NextChunk)))
    /\ TunnelIdle
    /\ CipherIdle

\* A caller hands over as many bytes as recv_buffer still takes, or one
\* more.
ReceiveOversized ==
    /\ wire.ret # -1
    /\ \E over \in {0, 1} :
        LET n == 16384 - Size(obfs.l_data.recv_buffer) + over
        IN  Mangled(IF over = 1 THEN "oversize" ELSE "junk", n, 0,
                    auth_aes128_sha1_client_post_decrypt(
                        obfs, Run("zero", 0, 0, n), n))
    /\ TunnelIdle
    /\ CipherIdle

FrameNext ==
    \/ Send
    \/ Receive
    \/ ReceiveDamaged
    \/ ReceiveOversized

FrameSpec == FrameInit /\ [][FrameNext]_vars

HandleSlots == Sockets \X {"handle", "timer_handle"}
OutstandingHandles ==
    {x \in HandleSlots : tunnel[x[1]][x[2]] \in {"open", "closing"}}

\* C1: the tunnel is never freed while ref_count > 0, it is freed only in
\* state dead, and ref_count drops to 0 at most once, which is the step
\* that frees the tunnel.
C1_FreedAtZeroRefsWhenDead ==
    /\ [](alloc = "freed" => tunnel.ref_count = 0 /\ tunnel.state = "session_dead")
    /\ [](frees <= 1)
    /\ [][(tunnel.ref_count # 0 /\ tunnel'.ref_count = 0)
            <=> (alloc = "live" /\ alloc' = "freed" /\ frees' = frees + 1)]_vars

\* A tunnel freed after relaying in the proxy phase.
C1_Witness ==
    /\ alloc = "freed" /\ frees = 1
    /\ Len(tunnel.outgoing.sent) >= 2

\* C2: the tunnel is in the registry exactly while it has a handle that is
\* open or closing: from tunnel_initialize, through shutdown, until the last
\* close callback.
C2_RegistryIffHandles ==
    (TunnelId \in tunnel_set) <=> (OutstandingHandles # {})

\* A dead tunnel whose last handle is still closing is still registered.
C2_Witness ==
    /\ tunnel.state = "session_dead"
    /\ Cardinality(OutstandingHandles) = 1
    /\ TunnelId \in tunnel_set

\* C3: while the tunnel is allocated, once its state is dead every step
\* leaves it dead, leaves the four socket read/write states alone, and starts
\* no read, timer, write, connect, resolve or close.
C3_DeadAbsorbsCallbacks ==
    [][(alloc = "live" /\ tunnel.state = "session_dead") =>
        /\ tunnel'.state = "session_dead"
        /\ tunnel'.ref_count <= tunnel.ref_count
        /\ \A c \in Sockets :
            /\ tunnel'[c].rdstate = tunnel[c].rdstate
            /\ tunnel'[c].wrstate = tunnel[c].wrstate
            /\ tunnel'[c].reading = "none"
            /\ tunnel'[c].timer = FALSE
            /\ tunnel'[c].sent = tunnel[c].sent
            /\ Len(tunnel'[c].writes) <= Len(tunnel[c].writes)
            /\ tunnel'[c].req \in {tunnel[c].req, "none"}]_vars


\* A connect or resolve callback cancelled by the shutdown ran on the dead
\* tunnel: it stored its status and did nothing else.
C3_Witness ==
    /\ alloc = "live" /\ tunnel.state = "session_dead"
    /\ tunnel.outgoing.req = "none"
    /\ tunnel.outgoing.result = "UV_ECANCELED"

Items(s) == {s[i] : i \in 1..Len(s)}

\* The step is socket_read_done_cb on socket c with nread bytes and the
\* parser's verdict in.
ReadStep(c, nread, in) ==
    /\ Live(c) /\ tunnel[c].reading = "socket_read_done_cb"
    /\ tunnel' = socket_read_done_cb(Entered(tunnel), c, nread, in)

\* The step completed the write at the head of socket c's queue.
WriteCompleted(c) ==
    /\ tunnel[c].writes # <<>>
    /\ tunnel'[c].writes = Tail(tunnel[c].writes)

\* The step completed the connect or resolve request pending on socket c.
ReqCompleted(c, req) ==
    tunnel[c].req = req /\ tunnel'[c].req = "none"

\* C4: in state handshake, a read that completes the method-select message
\* with no trailing bytes writes 05 00 to the client and moves to req_start
\* when no-auth is among the offered methods, and otherwise writes 05 FF and
\* moves to kill; from kill the tunnel goes nowhere but dead, and the
\* completion of that write shuts it down.
C4_HandshakeMethodSelect ==
    /\ [][\A in \in Inputs(tunnel) :
            (/\ tunnel.state = "session_handshake"
             /\ ReadStep("incoming", NREAD, in)
             /\ in.err = "s5_auth_select" /\ in.size = 0)
            => IF "s5_auth_none" \in in.methods
               THEN /\ tunnel'.incoming.sent =
                          Append(tunnel.incoming.sent, Reply(<<5, 0>>))
                    /\ tunnel'.state = "session_req_start"
               ELSE /\ tunnel'.incoming.sent =
                          Append(tunnel.incoming.sent, Reply(<<5, 255>>))
                    /\ tunnel'.state = "session_kill"]_vars
    /\ [][tunnel.state = "session_kill"
          => tunnel'.state \in {"session_kill", "session_dead"}]_vars
    /\ [][(tunnel.state = "session_kill" /\ WriteCompleted("incoming"))
          => tunnel'.state = "session_dead"]_vars

\* The client offered no method the proxy accepts, got 05 FF, and the
\* tunnel was shut down when that write completed.
C4_Witness ==
    /\ tunnel.state = "session_dead"
    /\ tunnel.incoming.sent = <<Reply(<<5, 255>>)>>
    /\ tunnel.incoming.writes = <<>>
    /\ tunnel.incoming.wrstate = "socket_dead"
    /\ tunnel.incoming.result = ZERO

\* C5 (as claimed): every upstream connect that completes with a failure
\* status on a tunnel waiting in req_connect appends the reply
\* 05 05 00 01 00 00 00 00 00 00 to the client's writes and moves to kill,
\* so that the reply precedes the shutdown.
C5_ConnectFailureReplies ==
    [][(/\ tunnel.state = "session_req_connect"
        /\ ReqCompleted("outgoing", "connect")
        /\ Neg(tunnel'.outgoing.result))
       => /\ tunnel'.incoming.sent =
                Append(tunnel.incoming.sent,
                       Reply(<<5, 5, 0, 1, 0, 0, 0, 0, 0, 0>>))
          /\ tunnel'.state = "session_kill"]_vars

\* C6: a resolver failure on a tunnel waiting in req_lookup appends the
\* reply 05 04 00 01 00 00 00 00 00 00 to the client's writes, moves to
\* kill and starts no upstream connect; from there nothing is handed to the
\* upstream socket, no connect is started, and the completion of that write
\* shuts the tunnel down.
C6_ResolveFailureReplies ==
    /\ [][(/\ tunnel.state = "session_req_lookup"
           /\ ReqCompleted("outgoing", "getaddrinfo")
           /\ Neg(tunnel'.outgoing.result))
          => /\ tunnel'.incoming.sent =
                   Append(tunnel.incoming.sent,
                          Reply(<<5, 4, 0, 1, 0, 0, 0, 0, 0, 0>>))
             /\ tunnel'.state = "session_kill"
             /\ tunnel'.outgoing.req = "none"
             /\ tunnel'.outgoing.sent = <<>>]_vars
    /\ [][(/\ tunnel.state = "session_kill"
           /\ Reply(<<5, 4, 0, 1, 0, 0, 0, 0, 0, 0>>) \in Items(tunnel.incoming.sent))
          => /\ tunnel'.outgoing.req = "none" /\ tunnel'.outgoing.sent = <<>>
             /\ WriteCompleted("incoming") => tunnel'.state = "session_dead"]_vars

\* The host did not resolve, 05 04 was written, and the completion of that
\* write shut the tunnel down.
C6_Witness ==
    /\ tunnel.state = "session_dead"
    /\ Reply(<<5, 4, 0, 1, 0, 0, 0, 0, 0, 0>>) \in Items(tunnel.incoming.sent)
    /\ tunnel.outgoing.result = "UV_EAI_NONAME"
    /\ tunnel.incoming.writes = <<>> /\ tunnel.incoming.result = ZERO


\* The reply do_ssr_auth_sent writes: 05 00 00 and the initial package.
SuccessReply(T) == Reply(<<5, 0, 0>> \o T.init_pkg)

\* The step appended the success reply to the client's writes.
WroteSuccessReply ==
    /\ tunnel'.init_pkg # <<>>
    /\ tunnel'.incoming.sent = Append(tunnel.incoming.sent, SuccessReply(tunnel'))

\* C7: the tunnel enters ssr_auth_sent only from req_connect by a connect
\* that completed with status 0; the success reply is appended to the
\* client's writes only in state ssr_auth_sent by the completion, with status
\* 0, of the write of the encrypted initial package, the one thing handed
\* upstream, and that step moves to proxy_start; if that write fails nothing
\* is appended and the tunnel is dead, which it stays.
C7_SuccessReplyAfterInitPackage ==
    /\ [][(tunnel.state # "session_ssr_auth_sent"
           /\ tunnel'.state = "session_ssr_auth_sent")
          => /\ tunnel.state = "session_req_connect"
             /\ ReqCompleted("outgoing", "connect")
             /\ tunnel'.outgoing.result = ZERO]_vars
    /\ [][WroteSuccessReply
          => /\ tunnel.state = "session_ssr_auth_sent"
             /\ tunnel.outgoing.sent = <<EncInit(tunnel.init_pkg)>>
             /\ tunnel.outgoing.writes =
                    <<[cb |-> "socket_write_done_cb", data |-> EncInit(tunnel.init_pkg)]>>
             /\ WriteCompleted("outgoing")
             /\ tunnel'.outgoing.result = ZERO
             /\ tunnel'.state = "session_proxy_start"]_vars
    /\ [][(/\ tunnel.state = "session_ssr_auth_sent"
           /\ WriteCompleted("outgoing")
           /\ Neg(tunnel'.outgoing.result))
          => /\ tunnel'.state = "session_dead"
             /\ tunnel'.incoming.sent = tunnel.incoming.sent]_vars
    /\ [][tunnel.state = "session_dead" => tunnel'.state = "session_dead"]_vars

\* The initial package went out, its write completed with status 0, and the
\* success reply is queued for the client in proxy_start.
C7_Witness ==
    /\ tunnel.state = "session_proxy_start"
    /\ tunnel.incoming.sent = <<Reply(<<5, 0>>), SuccessReply(tunnel)>>
    /\ tunnel.outgoing.sent = <<EncInit(tunnel.init_pkg)>>
    /\ tunnel.outgoing.writes = <<>>
    /\ tunnel.outgoing.result = ZERO

\* C8: whenever anything was handed to the upstream socket, or a proxy read
\* is armed, or the tunnel is past req_connect, the first thing handed
\* upstream is the encrypted initial package, and it was handed over once.
C8_InitPackageFirstOnce ==
    LET s == tunnel.outgoing.sent
    IN  /\ (\/ s # <<>>
            \/ tunnel.incoming.reading = "ssr_incoming_read_done_cb"
            \/ tunnel.outgoing.reading = "ssr_outgoing_read_done_cb"
            \/ tunnel.state \in {"session_ssr_auth_sent", "session_proxy_start",
                                 "session_proxy"})
           => (s # <<>> /\ s[1] = EncInit(tunnel.init_pkg))
        /\ Cardinality({i \in 1..Len(s) : s[i].kind = "init_package"}) <= 1

\* Client payload and an obfs feedback both followed the initial package.
C8_Witness ==
    LET s == tunnel.outgoing.sent
    IN  /\ Len(s) >= 3
        /\ s[1] = EncInit(tunnel.init_pkg)
        /\ \E i, j \in 2..Len(s) : s[i].kind = "data" /\ s[j].kind = "feedback"

Peer(c) == IF c = "incoming" THEN "outgoing" ELSE "incoming"

\* C9: on each socket the relayed chunks were handed to uv_write in the
\* order their source socket received them, and the writes still pending
\* are the tail of what was handed over, so they complete in that order.
C9_ChunkOrderPreserved ==
    \A c \in Sockets :
        LET s == tunnel[c].sent
            w == tunnel[c].writes
        IN  /\ \A i, j \in 1..Len(s) :
                (i < j /\ s[i].kind = "data" /\ s[j].kind = "data")
                    => s[i].seq < s[j].seq
            /\ \A i \in 1..Len(s) :
                s[i].kind = "data" => s[i].seq \in 1..tunnel[Peer(c)].nrecv
            /\ Len(w) <= Len(s)
            /\ \A i \in 1..Len(w) : w[i].data = s[Len(s) - Len(w) + i]

\* Two chunks were relayed in each direction.
C9_Witness ==
    \A c \in Sockets :
        Cardinality({i \in 1..Len(tunnel[c].sent) :
                        tunnel[c].sent[i].kind = "data"}) >= 2

\* C10: an idle timer that expires on a tunnel that is not dead stores
\* UV_ETIMEDOUT in that socket's result and shuts the tunnel down, closing
\* its four handles; with the close callbacks delivered, a tunnel that was
\* shut down is eventually freed, and the registry is then back to what it
\* was before the tunnel was created.
C10_TimerExpiryFreesTunnel ==
    /\ [][\A c \in Sockets :
            (/\ alloc = "live" /\ tunnel[c].timer_handle = "open"
             /\ tunnel[c].timer
             /\ tunnel.state # "session_dead"
             /\ tunnel' = socket_timer_expire_cb(Entered(tunnel), c))
            => /\ tunnel'[c].result = "UV_ETIMEDOUT"
               /\ tunnel'.state = "session_dead"
               /\ tunnel'.ref_count = 4
               /\ \A x \in HandleSlots : tunnel'[x[1]][x[2]] = "closing"]_vars
    /\ (alloc = "live" /\ tunnel.state = "session_dead")
         ~> (alloc = "freed" /\ frees = 1 /\ tunnel_set = {})

\* The upstream timer expired in the proxy phase and the tunnel was freed.
C10_Witness ==
    /\ alloc = "freed" /\ tunnel_set = {}
    /\ tunnel.outgoing.result = "UV_ETIMEDOUT"
    /\ tunnel.incoming.nrecv >= 1


\* The step is a callback in which the cipher pipeline gave a result other
\* than ssr_ok: tunnel_encrypt on the initial package in do_req_connect,
\* tunnel_encrypt on a client chunk, tunnel_decrypt on an upstream chunk.
CipherFailedStep ==
    \/ /\ tunnel.state = "session_req_connect"
       /\ alloc = "live" /\ tunnel.outgoing.req = "connect"
       /\ tunnel.outgoing.handle = "open"
       /\ \E in \in Inputs(tunnel) :
            /\ in.cipher # "ssr_ok"
            /\ tunnel' = socket_connect_done_cb(Entered(tunnel), "outgoing", ZERO, in)
    \/ /\ Live("incoming")
       /\ tunnel.incoming.reading = "ssr_incoming_read_done_cb"
       /\ \E in \in EncryptOutcomes :
            /\ in.cipher # "ssr_ok"
            /\ tunnel' = ssr_incoming_read_done_cb(Entered(tunnel), NREAD, in)
    \/ /\ Live("outgoing")
       /\ tunnel.outgoing.reading = "ssr_outgoing_read_done_cb"
       /\ \E in \in DecryptOutcomes :
            /\ in.cipher # "ssr_ok"
            /\ tunnel' = ssr_outgoing_read_done_cb(Entered(tunnel), NREAD, in)

\* C11: a callback in which the cipher pipeline fails shuts the tunnel down
\* in that same step: nothing is handed to either socket, not the failed
\* chunk and not a feedback buffer, no read is left armed that could feed
\* the pipeline again, and the tunnel stays dead.
C11_CipherFailureShutsDown ==
    /\ [][CipherFailedStep
          => /\ tunnel.state # "session_dead"
             /\ tunnel'.state = "session_dead"
             /\ \A c \in Sockets :
                  /\ tunnel'[c].sent = tunnel[c].sent
                  /\ tunnel'[c].writes = tunnel[c].writes
                  /\ tunnel'[c].reading = "none"
                  /\ tunnel'[c].handle = "closing"]_vars
    /\ [][tunnel.state = "session_dead"
          => /\ tunnel'.state = "session_dead"
             /\ \A c \in Sockets : /\ tunnel'[c].sent = tunnel[c].sent
                                   /\ tunnel'[c].reading = "none"]_vars

\* The second chunk from upstream failed to decrypt: the tunnel is dead and
\* the client got the first chunk only.
C11_Witness ==
    /\ tunnel.state = "session_dead"
    /\ tunnel.outgoing.nrecv = 2
    /\ \A c \in Sockets : tunnel[c].result \notin UvErrors
    /\ {x \in Items(tunnel.incoming.sent) : x.kind = "data"} = {Chunk(1)}
    /\ {x \in Items(tunnel.outgoing.sent) : x.kind = "feedback"} = {}


\* C12: tunnel_encrypt runs on the buffer, in this order, client_pre_encrypt
\* if the protocol plugin has it, ss_encrypt, and client_encode if the obfs
\* plugin has it; when ss_encrypt fails the result is invalid_password and
\* client_encode is not run, otherwise the result is ok and the buffer has
\* the length the last stage gave it.
C12_EncryptStages ==
    tc.op = "tunnel_encrypt" =>
        LET pre == tc.env.protocol_plugin /\ tc.env.client_pre_encrypt
            encode == tc.env.obfs_plugin /\ tc.env.client_encode
            failed == tc.o.err # 0
        IN  /\ tc.buf.hist =
                  (IF pre THEN <<"client_pre_encrypt">> ELSE <<>>)
                  \o <<"ss_encrypt">>
                  \o (IF encode /\ ~failed THEN <<"client_encode">> ELSE <<>>)
            /\ tc.ret = IF failed THEN "ssr_error_invalid_password" ELSE "ssr_ok"
            /\ ~failed =>
                  tc.buf.len = IF encode THEN tc.o.encode_len ELSE tc.o.cipher_len

\* The cipher failed between a protocol plugin and an obfs plugin that both
\* have their callback.
C12_Witness ==
    /\ tc.op = "tunnel_encrypt"
    /\ tc.env.protocol_plugin /\ tc.env.client_pre_encrypt
    /\ tc.env.obfs_plugin /\ tc.env.client_encode
    /\ tc.ret = "ssr_error_invalid_password"
    /\ tc.buf.hist = <<"client_pre_encrypt", "ss_encrypt">>

\* The stages tunnel_decrypt ran, the result and the length, as C13 says.
DecryptStagesAsSpecified ==
    LET decode == tc.env.obfs_plugin /\ tc.env.client_decode
        post == tc.env.protocol_plugin /\ tc.env.client_post_decrypt
        decode_failed == decode /\ tc.o.decode_len < 0
        decoded_len == IF decode THEN tc.o.decode_len ELSE tc.arg.len
        cipher == ~decode_failed /\ decoded_len > 0
        cipher_failed == cipher /\ tc.o.err # 0
        post_run == post /\ ~decode_failed /\ ~cipher_failed
    IN  /\ tc.buf.hist =
              (IF decode THEN <<"client_decode">> ELSE <<>>)
              \o (IF cipher THEN <<"ss_decrypt">> ELSE <<>>)
              \o (IF post_run THEN <<"client_post_decrypt">> ELSE <<>>)
        /\ tc.ret = IF decode_failed THEN "ssr_error_client_decode"
                    ELSE IF cipher_failed THEN "ssr_error_invalid_password"
                    ELSE IF post_run /\ tc.o.post_len < 0
                    THEN "ssr_error_client_post_decrypt"
                    ELSE "ssr_ok"

\* C13 (as claimed): tunnel_decrypt runs client_decode, ss_decrypt (only on
\* a decoded length > 0) and client_post_decrypt in this order with the
\* three error results, and a feedback buffer is produced exactly when
\* client_decode reports needsendback.
C13_DecryptStagesFeedbackIffSendback ==
    tc.op = "tunnel_decrypt" =>
        /\ DecryptStagesAsSpecified
        /\ tc.feedback # NULL <=>
              (tc.env.obfs_plugin /\ tc.env.client_decode /\ tc.o.needsendback)

\* C13 (amended): the same stages, order and results; a feedback buffer is
\* produced exactly when client_decode returned a length that is not
\* negative and reported needsendback and the obfs plugin has client_encode,
\* and it is what client_encode made of an empty buffer.
C13_DecryptStages ==
    tc.op = "tunnel_decrypt" =>
        /\ DecryptStagesAsSpecified
        /\ tc.feedback # NULL <=>
              /\ tc.env.obfs_plugin /\ tc.env.client_decode
              /\ tc.o.decode_len >= 0 /\ tc.o.needsendback
              /\ tc.env.client_encode
        /\ tc.feedback # NULL =>
              tc.feedback = Stage(buffer_alloc, "client_encode", tc.o.encode_len)

\* client_decode left nothing to decrypt and asked for a feedback: the
\* cipher was skipped, post-decrypt ran, the feedback buffer was produced.
C13_Witness ==
    /\ tc.op = "tunnel_decrypt"
    /\ tc.ret = "ssr_ok"
    /\ tc.buf.hist = <<"client_decode", "client_post_decrypt">>
    /\ tc.feedback # NULL


\* The chunks of the last client_pre_encrypt call that pack_data packed,
\* in order: all of them but the auth chunk of a first call.
DataChunks == IF wire.first THEN Tail(wire.chunks) ELSE wire.chunks

\* The first two bytes of C are the little-endian length of C.
LengthPrefixed(C) ==
    /\ \A i \in {0, 1} : Take(Drop(C, i), 1)[1].k = "byte"
    /\ ByteVal(C, 0) + 256 * ByteVal(C, 1) = Size(C)

\* C15 (as claimed): every chunk client_pre_encrypt produces starts with
\* its own length as a little-endian 16-bit value.
C15_EveryChunkLengthPrefixed ==
    wire.op = "client_pre_encrypt" =>
        \A i \in 1..Len(wire.chunks) : LengthPrefixed(wire.chunks[i])

\* C15 (amended): every chunk client_pre_encrypt produces with pack_data,
\* that is every chunk but the initial auth chunk, starts with its own
\* length as a little-endian 16-bit value.
C15_DataChunkLengthPrefixed ==
    wire.op = "client_pre_encrypt" =>
        \A i \in 1..Len(DataChunks) : LengthPrefixed(DataChunks[i])

\* A first call that packed the auth chunk, a unit of 2000 bytes and a rest.
C15_Witness ==
    /\ wire.op = "client_pre_encrypt"
    /\ wire.first
    /\ Len(wire.chunks) = 3
    /\ Size(wire.chunks[2]) = 2009

CeilDiv(a, b) == (a + b - 1) \div b

\* The number of chunks C17 gives for an input of n bytes.
ChunkCount(n) ==
    LET head_size == IF 1200 > n THEN n ELSE 1200
    IN  1 + CeilDiv(n - head_size, 2000)

\* C17 (as claimed): every call of client_pre_encrypt on a non-empty input
\* of n bytes emits 1 + ceil((n - min(1200, n)) / 2000) chunks.
C17_ChunkCountEveryCall ==
    (wire.op = "client_pre_encrypt" /\ wire.datalength > 0) =>
        Len(wire.chunks) = ChunkCount(wire.datalength)

\* C17 (amended): the first call of client_pre_encrypt on an instance, on a
\* non-empty input of n bytes, emits 1 + ceil((n - min(1200, n)) / 2000)
\* chunks.
C17_ChunkCountFirstCall ==
    (wire.op = "client_pre_encrypt" /\ wire.datalength > 0 /\ wire.first) =>
        Len(wire.chunks) = ChunkCount(wire.datalength)

\* A first call on 3201 bytes: the auth chunk, a unit and one last byte.
C17_Witness ==
    /\ wire.op = "client_pre_encrypt"
    /\ wire.first
    /\ wire.datalength = 3201
    /\ Len(wire.chunks) = 3

\* C18: get_rand_len returns 0 when n > 1300, last_data_len > 1300 or
\* full >= buffer_size, and otherwise a value of 0..127 for n > 1100, of
\* 0..255 for 900 < n <= 1100, of 0..511 for 400 < n <= 900, of 0..1023
\* for n <= 400.
C18_RandLenRange ==
    wire.op = "get_rand_len" =>
        LET n == wire.datalength IN
        IF \/ n > 1300
           \/ obfs.l_data.last_data_len > 1300
           \/ wire.fulldatalength >= obfs.server.buffer_size
        THEN wire.ret = 0
        ELSE wire.ret \in 0..(IF n > 1100 THEN 127
                              ELSE IF n > 900 THEN 255
                              ELSE IF n > 400 THEN 511
                              ELSE 1023)

\* The largest value of the bucket 1100 < n <= 1300.
C18_Witness ==
    /\ wire.op = "get_rand_len"
    /\ wire.datalength = 1101
    /\ wire.ret = 127

\* The connection_id in the AES block of an auth chunk.
WrittenConnectionId(C) ==
    LET plain == Take(Drop(C, 11), 1)[1].over
    IN  U32(ByteVal(plain, 10) + 256 * ByteVal(plain, 11),
            ByteVal(plain, 8) + 256 * ByteVal(plain, 9))

\* C19: when packing the auth chunk takes connection_id over 0xFF000000,
\* the same call draws local_client_id and connection_id anew and leaves a
\* connection_id of at most 0xFFFFFF; the connection_id written into the
\* auth chunk is the one the call leaves and is never over 0xFF000000.
C19_ConnectionIdReseeded ==
    [][(wire'.calls # wire.calls /\ wire'.first) =>
          /\ Gt32(Inc32(obfs.g_data.connection_id), U32(65280, 0)) =>
                /\ obfs'.g_data.local_client_id # obfs.g_data.local_client_id
                /\ ~Gt32(obfs'.g_data.connection_id, U32(255, 65535))
          /\ WrittenConnectionId(wire'.chunks[1]) = obfs'.g_data.connection_id
          /\ ~Gt32(WrittenConnectionId(wire'.chunks[1]), U32(65280, 0))]_vars

\* A re-seeded instance: the second draw of local_client_id, and the
\* random connection_id 0xFFFFFFFF cut to 24 bits.
C19_Witness ==
    /\ wire.first
    /\ obfs.g_data.local_client_id = 2
    /\ obfs.g_data.connection_id = U32(255, 65535)


\* What client_post_decrypt returned so far is the plaintext packed so far,
\* up to the chunks not handed over whole, and no call failed.
RoundTrip ==
    /\ wire.ret # -1
    /\ wire.plain = Run("data", 0, 0, Size(wire.plain))
    /\ Size(wire.plain) <= wire.fed
    /\ wire.delivered = Size(wire.framed) => Size(wire.plain) = wire.fed

ConnectReplies ==
    IF tunnel.init_pkg = <<>> THEN {}
    ELSE {r \in Items(tunnel.incoming.sent) :
            r.kind = "reply" /\ Len(r.bytes) > 2}

ParseFailure(state, in) ==
    /\ in.err # "s5_ok"
    /\ \/ in.size # 0
       \/ state = "session_handshake" /\ in.err # "s5_auth_select"
       \/ state = "session_req_parse" /\ in.err # "s5_exec_cmd"
       \/ state = "session_req_parse" /\ in.cmd = "s5_cmd_tcp_bind"

\* The step shut the tunnel down and handed nothing to either socket.
ClosedSilently ==
    /\ tunnel.state # "session_dead" /\ tunnel'.state = "session_dead"
    /\ \A c \in Sockets : tunnel'[c].sent = tunnel[c].sent

\* The step appended to the client's writes a request reply whose second
\* byte, the reply code, is rep.
ErrorReplied(rep) ==
    /\ Len(tunnel'.incoming.sent) = Len(tunnel.incoming.sent) + 1
    /\ LET x == tunnel'.incoming.sent[Len(tunnel'.incoming.sent)]
       IN  x.kind = "reply" /\ Len(x.bytes) > 2 /\ x.bytes[2] = rep

\* The step is a callback that found the destination refused by the ruleset.
RuleViolationStep ==
    \E in \in Inputs(tunnel) :
        /\ ~in.access
        /\ \/ tunnel.state = "session_req_parse"
              /\ ReadStep("incoming", NREAD, in)
           \/ /\ tunnel.state = "session_req_lookup"
              /\ ReqCompleted("outgoing", "getaddrinfo")
              /\ tunnel' = socket_getaddrinfo_done_cb(Entered(tunnel), "outgoing", ZERO, in)

\* A parse failure, a BIND request, and a read that ends in EOF or an error
\* before the proxy phase close the tunnel with nothing written.
SilentCloses ==
    /\ [][\A in \in Inputs(tunnel) :
            (/\ tunnel.state \in {"session_handshake", "session_req_parse"}
             /\ ReadStep("incoming", NREAD, in)
             /\ ParseFailure(tunnel.state, in))
            => ClosedSilently]_vars
    /\ [][\A c \in Sockets, nread \in {"UV_EOF", "UV_ECONNRESET"} :
            (tunnel.state # "session_dead" /\ ReadStep(c, nread, NoInput))
            => ClosedSilently]_vars

\* The step is a resolve failure (for the reply code 04), a connect failure
\* (05) or a rule violation (02).
FailureOfReply(rep) ==
    \/ /\ rep = 4 /\ tunnel.state = "session_req_lookup"
       /\ ReqCompleted("outgoing", "getaddrinfo")
       /\ Neg(tunnel'.outgoing.result)
    \/ /\ rep = 5 /\ tunnel.state = "session_req_connect"
       /\ ReqCompleted("outgoing", "connect")
       /\ Neg(tunnel'.outgoing.result)
    \/ rep = 2 /\ RuleViolationStep

\* The step answered a UDP ASSOCIATE request while config->udp is off.
UdpRefusedStep ==
    \E in \in Inputs(tunnel) :
        /\ tunnel.state = "session_req_parse"
        /\ in.err = "s5_exec_cmd" /\ in.size = 0
        /\ in.cmd = "s5_cmd_udp_assoc" /\ ~in.udp
        /\ ReadStep("incoming", NREAD, in)

\* C21 (as claimed): parse errors, trailing bytes, BIND, and EOF or a read
\* error before the proxy phase shut the tunnel down with nothing written,
\* and a reply with an error code is written only on a resolve failure, a
\* connect failure or a rule violation.
C21_SilentCloseOnlyThreeReplies ==
    /\ SilentCloses
    /\ [][\A rep \in 1..255 : ErrorReplied(rep) => FailureOfReply(rep)]_vars

\* C21 (amended): as above, with one more origin of an error reply: a UDP
\* ASSOCIATE request when UDP is not allowed is answered 05 07.
C21_SilentCloseFourReplies ==
    /\ SilentCloses
    /\ [][\A rep \in 1..255 :
            ErrorReplied(rep) =>
                (FailureOfReply(rep) \/ (rep = 7 /\ UdpRefusedStep))]_vars

\* The request was read after the 05 00 of the handshake and the tunnel was
\* shut down in do_req_parse with nothing more written to the client.
C21_Witness ==
    /\ tunnel.state = "session_dead"
    /\ tunnel.incoming.sent = <<Reply(<<5, 0>>)>>
    /\ tunnel.incoming.writes = <<>>
    /\ tunnel.incoming.result = NREAD
    /\ tunnel.outgoing.sent = <<>>
    /\ ~tunnel.cipher


\* C22 (as claimed): the tunnel is not freed while a completion callback is
\* still to come: a freed tunnel has no resolve or connect request and no
\* write pending, and no callback ever ran on a freed tunnel.
C22_NoCallbackAfterFree ==
    /\ alloc = "freed" =>
           \A c \in Sockets : tunnel[c].req = "none" /\ tunnel[c].writes = <<>>
    /\ ~uaf


\* The handles uv_close was called on whose callback is still to come.
ClosingHandles == {x \in HandleSlots : tunnel[x[1]][x[2]] = "closing"}

\* C23: ref_count is 0 in every state that is not dead; the step into dead
\* is the one tunnel_shutdown, which calls uv_close on the stream and on the
\* timer of both sockets and leaves ref_count at 4; from then on ref_count
\* is the number of close callbacks still to come, so it only goes down, one
\* per callback, and the tunnel is freed by the fourth and not before.
C23_TwoClosesPerSocket ==
    /\ [](tunnel.state # "session_dead" => tunnel.ref_count = 0 /\ alloc # "freed")
    /\ [][(tunnel.state # "session_dead" /\ tunnel'.state = "session_dead")
          => /\ tunnel'.ref_count = 4
             /\ \A x \in HandleSlots : /\ tunnel[x[1]][x[2]] = "open"
                                       /\ tunnel'[x[1]][x[2]] = "closing"]_vars
    /\ [](tunnel.state = "session_dead"
            => /\ tunnel.ref_count = Cardinality(ClosingHandles)
               /\ (alloc = "freed") <=> (tunnel.ref_count = 0))
    /\ [][tunnel.state = "session_dead"
          => /\ tunnel'.ref_count \in {tunnel.ref_count, tunnel.ref_count - 1}
             /\ (alloc = "live" /\ alloc' = "freed")
                  <=> (tunnel.ref_count = 1 /\ tunnel'.ref_count = 0)]_vars

\* Three of the four close callbacks ran on a tunnel shut down in the proxy
\* phase: one reference is left and the tunnel is still allocated.
C23_Witness ==
    /\ tunnel.state = "session_dead" /\ alloc = "live"
    /\ tunnel.ref_count = 1
    /\ Cardinality(ClosingHandles) = 1
    /\ tunnel.incoming.nrecv >= 1


\* No chunk was read in the proxy phase yet.
NothingRelayed == tunnel.incoming.nrecv = 0 /\ tunnel.outgoing.nrecv = 0

EmptyEncryptStep ==
    /\ Live("incoming")
    /\ tunnel.incoming.reading = "ssr_incoming_read_done_cb"
    /\ \E in \in EncryptOutcomes :
         /\ in.cipher = "ssr_ok" /\ in.len = 0
         /\ tunnel' = ssr_incoming_read_done_cb(Entered(tunnel), NREAD, in)

\* The step started the reading of the client again in the proxy phase.
ClientReadResumed ==
    /\ tunnel.outgoing.reading = "ssr_outgoing_read_done_cb"
    /\ tunnel.incoming.reading = "none"
    /\ tunnel'.incoming.reading = "ssr_incoming_read_done_cb"

\* A feedback buffer is among the writes outstanding on the upstream socket.
FeedbackOutstanding(T) ==
    \E i \in 1..Len(T.outgoing.writes) : T.outgoing.writes[i].data.kind = "feedback"

\* An empty result of the pipeline on a client chunk stops the reading of
\* the client and hands nothing upstream.
PausedOnEmpty ==
    [][EmptyEncryptStep
       => /\ tunnel'.incoming.reading = "none"
          /\ tunnel'.incoming.rdstate = "socket_stop"
          /\ tunnel'.outgoing.sent = tunnel.outgoing.sent]_vars

\* C25 (as claimed): in the proxy phase an empty result stops the reading of
\* the client, and the reading is not started again while the feedback write
\* is outstanding on the upstream socket.
C25_PausedUntilFeedbackWritten ==
    /\ PausedOnEmpty
    /\ [][ClientReadResumed => ~FeedbackOutstanding(tunnel')]_vars

\* C25 (amended): in the proxy phase an empty result stops the reading of
\* the client, and the reading is started again by the upstream read that
\* brings a feedback, in the step that hands the feedback to the upstream
\* socket: the feedback write is then still outstanding.
C25_PausedUntilFeedbackIssued ==
    /\ PausedOnEmpty
    /\ [][ClientReadResumed
          => /\ tunnel'.outgoing.nrecv = tunnel.outgoing.nrecv + 1
             /\ tunnel'.outgoing.sent =
                    Append(tunnel.outgoing.sent, Feedback(tunnel'.outgoing.nrecv))
             /\ tunnel'.outgoing.writes =
                    Append(tunnel.outgoing.writes,
                           [cb |-> "ssr_write_done_cb",
                            data |-> Feedback(tunnel'.outgoing.nrecv)])]_vars

\* The first client chunk gave an empty result, and the reading of the
\* client goes on again with the feedback write outstanding.
C25_Witness ==
    /\ tunnel.incoming.nrecv = 1
    /\ \A i \in 1..Len(tunnel.outgoing.sent) : tunnel.outgoing.sent[i].kind # "data"
    /\ tunnel.incoming.reading = "ssr_incoming_read_done_cb"
    /\ FeedbackOutstanding(tunnel)


\* C26 (as claimed): in req_udp_assoc a read that completes with data starts
\* the next read with every ASSERT holding, nothing written and the state
\* kept, and a read that ends in EOF or a reset shuts the tunnel down.
C26_UdpAssocKeepsReading ==
    /\ [][(/\ tunnel.state = "session_req_udp_accoc"
           /\ ReadStep("incoming", NREAD, NoInput))
          => /\ tunnel'.assert_failed = tunnel.assert_failed
             /\ tunnel'.state = "session_req_udp_accoc"
             /\ tunnel'.incoming.reading = "socket_read_done_cb"
             /\ \A c \in Sockets : tunnel'[c].sent = tunnel[c].sent]_vars
    /\ [][\A nread \in {"UV_EOF", "UV_ECONNRESET"} :
            (/\ tunnel.state = "session_req_udp_accoc"
             /\ ReadStep("incoming", nread, NoInput))
            => tunnel'.state = "session_dead"]_vars


\* The step is the read in req_parse that completes the request, with the
\* parser's verdict and the configuration in.
RequestParsedStep(in) ==
    /\ tunnel.state = "session_req_parse"
    /\ in.err = "s5_exec_cmd" /\ in.size = 0
    /\ ReadStep("incoming", NREAD, in)

\* What the claim says of a request for the commands other than a CONNECT
\* to a numeric remote host.
RequestDispatched(in) ==
    /\ in.cmd = "s5_cmd_tcp_connect"
         => /\ tunnel'.init_pkg = initial_package_create(in.dest)
            /\ tunnel'.cipher
    /\ (in.cmd = "s5_cmd_tcp_connect" /\ ~in.numeric)
         => /\ tunnel'.state = "session_req_lookup"
            /\ tunnel'.outgoing.req = "getaddrinfo"
    /\ in.cmd = "s5_cmd_udp_assoc"
         => /\ tunnel'.incoming.sent =
                 Append(tunnel.incoming.sent, Reply(build_udp_assoc_package(in.udp)))
            /\ tunnel'.state = "session_req_udp_accoc"
            /\ tunnel'.init_pkg = <<>> /\ ~tunnel'.cipher
            /\ tunnel'.outgoing.req = "none"
    /\ in.cmd \notin {"s5_cmd_tcp_connect", "s5_cmd_udp_assoc"}
         => /\ tunnel'.state = "session_dead"
            /\ tunnel'.init_pkg = <<>> /\ ~tunnel'.cipher

ReadCompleted(c) ==
    /\ Live(c)
    /\ \/ /\ tunnel[c].reading = "socket_read_done_cb"
          /\ \E in \in Inputs(tunnel) :
               tunnel' = socket_read_done_cb(Entered(tunnel), c, NREAD, in)
       \/ /\ c = "incoming"
          /\ tunnel[c].reading = "ssr_incoming_read_done_cb"
          /\ \E in \in EncryptOutcomes :
               tunnel' = ssr_incoming_read_done_cb(Entered(tunnel), NREAD, in)
       \/ /\ c = "outgoing"
          /\ tunnel[c].reading = "ssr_outgoing_read_done_cb"
          /\ \E in \in DecryptOutcomes :
               tunnel' = ssr_outgoing_read_done_cb(Entered(tunnel), NREAD, in)

\* The step is the callback of a write that completed with status 0 on c.
WriteSucceeded(c) ==
    /\ alloc = "live" /\ tunnel[c].handle = "open"
    /\ tunnel[c].writes # <<>>
    /\ IF Head(tunnel[c].writes).cb = "socket_write_done_cb"
       THEN tunnel' = socket_write_done_cb(Entered(tunnel), c, ZERO, NoInput)
       ELSE tunnel' = ssr_write_done_cb(Entered(tunnel), c, ZERO)

\* The step is the callback of a connect or resolve that completed with
\* status 0 on c.
RequestSucceeded(c) ==
    /\ alloc = "live" /\ tunnel[c].handle = "open"
    /\ \E in \in Inputs(tunnel) :
         \/ /\ tunnel[c].req = "connect"
            /\ tunnel' = socket_connect_done_cb(Entered(tunnel), c, ZERO, in)
         \/ /\ tunnel[c].req = "getaddrinfo"
            /\ tunnel' = socket_getaddrinfo_done_cb(Entered(tunnel), c, ZERO, in)

\* C28 (as claimed): the callback of every read, write, connect and resolve
\* that completes successfully on a socket starts that socket's idle timer
\* anew, unless it shuts the tunnel down.
C28_TimerRearmedOnCompletion ==
    [][\A c \in Sockets :
        (/\ tunnel.state # "session_dead" /\ tunnel'.state # "session_dead"
         /\ ReadCompleted(c) \/ WriteSucceeded(c) \/ RequestSucceeded(c))
        => c \in tunnel'.rearmed]_vars


\* The idle timers that are running.
ArmedTimers ==
    {c \in Sockets : tunnel[c].timer /\ tunnel[c].timer_handle = "open"}

\* C29: while the tunnel is allocated and not dead at least one of its idle
\* timers is running; so, the loop delivering timer and close callbacks, a
\* tunnel is eventually freed even if none of its reads, writes, connects
\* and resolves ever completes.
C29_NoTunnelWaitsForever ==
    /\ []((alloc = "live" /\ tunnel.state # "session_dead") => ArmedTimers # {})
    /\ (alloc = "live") ~> (alloc = "freed" /\ tunnel_set = {})

\* The client's idle timer ran out while the upstream connect was pending;
\* the connect was cancelled and the tunnel freed.
C29_Witness ==
    /\ alloc = "freed"
    /\ tunnel.incoming.result = "UV_ETIMEDOUT"
    /\ tunnel.outgoing.result = "UV_ECANCELED"
    /\ tunnel.outgoing.sent = <<>>


\* ---------------------------------------------------------------------
\* Read and write states of a socket context.

LegalChange(from, to) ==
    \/ from = to
    \/ <<from, to>> \in {<<"socket_stop", "socket_busy">>,
                         <<"socket_busy", "socket_done">>,
                         <<"socket_done", "socket_stop">>}
    \/ from # "socket_dead" /\ to = "socket_dead"

SocketClosed(mv) == mv.rd_to = "socket_dead" /\ mv.wr_to = "socket_dead"

LegalMove(mv) ==
    /\ LegalChange(mv.rd_from, mv.rd_to)
    /\ LegalChange(mv.wr_from, mv.wr_to)
    /\ (mv.rd_from # mv.rd_to /\ mv.wr_from # mv.wr_to) => SocketClosed(mv)

\* C30: every assignment that changes the read state or the write state of
\* a socket goes stop -> busy, busy -> done, done -> stop or, from a state
\* other than dead, to dead; it changes only one of the two unless it is
\* the close of the socket, which makes both dead.
C30_StatesChangeAlongCycle == \A mv \in tunnel.moves : LegalMove(mv)


\* ---------------------------------------------------------------------
\* pack_id and recv_id.

\* id + k as a uint32_t (k small).
AddId(id, k) ==
    IF id > 2147483647 - k
    THEN (id - 2147483647 - 1) + (k - 2147483647 - 1)
    ELSE id + k

\* Adding k to id passes from 0xFFFFFFFF to 0.
WrapsId(id, k) == id < 0 /\ id + k >= 0

PackedStep == wire'.calls = wire.calls + 1

UnpackedStep == wire'.op = "client_post_decrypt" /\ wire' # wire

\* The chunks whose last byte the step handed over, none of them damaged.
ChunksCompleted ==
    IF wire'.damage # "none" \/ ~wire.skipped THEN 0
    ELSE Cardinality({e \in wire.ends :
                         wire.delivered < e /\ e <= wire'.delivered})

\* The ids advance by one per chunk packed and per chunk verified.
IdsCountChunks ==
    /\ (wire.op = "none" /\ ~wire.skipped) =>
          (obfs.l_data.pack_id = 1 /\ obfs.l_data.recv_id = 1)
    /\ PackedStep =>
          /\ obfs'.l_data.pack_id
                = AddId(obfs.l_data.pack_id, Len(DataChunks'))
          /\ obfs'.l_data.recv_id = obfs.l_data.recv_id
    /\ UnpackedStep =>
          /\ obfs'.l_data.recv_id
                = AddId(obfs.l_data.recv_id, ChunksCompleted)
          /\ obfs'.l_data.pack_id = obfs.l_data.pack_id

\* C31 (as claimed): in a plugin instance pack_id and recv_id start at 1,
\* pack_id grows by exactly 1 for each data chunk packed, recv_id by exactly
\* 1 for each chunk whose two tags were verified and not for a chunk that
\* fails validation or is incomplete, and neither ever gets smaller.
C31_IdsOnlyIncrease ==
    [][/\ IdsCountChunks
       /\ ~BelowId(obfs'.l_data.pack_id, obfs.l_data.pack_id)
       /\ ~BelowId(obfs'.l_data.recv_id, obfs.l_data.recv_id)]_vars

\* C31 (amended): in a plugin instance pack_id and recv_id start at 1,
\* pack_id advances by exactly 1 for each data chunk packed, recv_id by
\* exactly 1 for each chunk whose two tags were verified and not for a
\* chunk that fails validation or is incomplete; both are 32-bit counters
\* that grow until they pass from 2^32 - 1 to 0.
C31_IdsAdvanceModulo ==
    [][/\ IdsCountChunks
       /\ (PackedStep /\ Len(DataChunks') > 0) =>
             \/ WrapsId(obfs.l_data.pack_id, Len(DataChunks'))
             \/ BelowId(obfs.l_data.pack_id, obfs'.l_data.pack_id)
       /\ (UnpackedStep /\ ChunksCompleted > 0) =>
             \/ WrapsId(obfs.l_data.recv_id, ChunksCompleted)
             \/ BelowId(obfs.l_data.recv_id, obfs'.l_data.recv_id)
       /\ (UnpackedStep /\ ChunksCompleted = 0) => UNCHANGED obfs.l_data.recv_id
       /\ BelowId(obfs'.l_data.pack_id, obfs.l_data.pack_id)
             => (obfs.l_data.pack_id < 0 /\ obfs'.l_data.pack_id >= 0)
       /\ BelowId(obfs'.l_data.recv_id, obfs.l_data.recv_id)
             => (obfs.l_data.recv_id < 0 /\ obfs'.l_data.recv_id >= 0)]_vars

\* Both counters have passed 0xFFFFFFFF; a chunk packed under id 0 failed
\* validation on the way back and left recv_id at 0.
C31_Witness ==
    /\ wire.damage \in Damages
    /\ obfs.l_data.recv_id = 0
    /\ obfs.l_data.pack_id = 1


\* ---------------------------------------------------------------------
\* Errors of client_post_decrypt.

\* The bytes handed over up to x that belong to a chunk not yet whole.
Pending(x) ==
    LET start == CHOOSE s \in {0} \cup {e \in wire.ends : e <= x} :
                     \A e \in wire.ends : e <= x => e <= s
    IN  Norm(Take(Drop(wire.framed, start), x - start))

\* C32: client_post_decrypt returns -1, and hands out no plaintext, when
\* the bytes in recv_buffer and the new ones are more than 16384, when a
\* chunk's length is under 8 or over 8191, or when one of its two tags does
\* not match; in the length and tag cases it empties recv_buffer.  A chunk
\* that has not arrived whole is no error: its bytes stay in recv_buffer
\* and recv_id stays as it is.
C32_PostDecryptErrors ==
    [][UnpackedStep =>
          /\ Size(obfs.l_data.recv_buffer) + wire'.datalength > 16384 =>
                (wire'.ret = -1 /\ wire'.plain = wire.plain)
          /\ wire'.damage \in Damages =>
                /\ wire'.ret = -1 /\ wire'.plain = wire.plain
                /\ obfs'.l_data.recv_buffer = <<>>
          /\ (wire'.damage = "none" /\ wire.skipped) =>
                /\ wire'.ret >= 0
                /\ obfs'.l_data.recv_buffer = Pending(wire'.delivered)
                /\ ChunksCompleted = 0 => UNCHANGED obfs.l_data.recv_id]_vars

\* After one good chunk, a chunk of 2009 bytes came with the length 8192
\* under a matching first tag.
C32_Witness ==
    /\ wire.damage = "long"
    /\ wire.ret = -1
    /\ wire.datalength = 2009
    /\ obfs.l_data.recv_buffer = <<>>
    /\ obfs.l_data.recv_id = 2


\* ---------------------------------------------------------------------
\* The shared connection_id.

\* C33 (as claimed): in every reachable state connection_id is at most
\* 2^24 - 1, also after tunnels have packed their auth data.
C33_ConnectionIdBelow24Bits ==
    ~Gt32(obfs.g_data.connection_id, U32(255, 65535))

\* C33 (amended): in every reachable state connection_id is at most
\* 0xFF000000, also after tunnels have packed their auth data.
C33_ConnectionIdBelowReseed ==
    ~Gt32(obfs.g_data.connection_id, U32(65280, 0))

\* Two tunnels packed their auth data after init_data drew 0xFFFFFF:
\* connection_id is 0x01000001.
C33_Witness ==
    /\ wire.calls = 2
    /\ wire.first
    /\ obfs.g_data.local_client_id = 1
    /\ obfs.g_data.connection_id = U32(256, 1)


\* ---------------------------------------------------------------------
\* Where the shared ids change in the life of a tunnel.

\* The listener made the tunnel.
TunnelCreated == alloc = "none" /\ alloc' = "live"

\* do_req_connect sent the encrypted initial package upstream.
AuthSentStep ==
    /\ tunnel.state = "session_req_connect"
    /\ tunnel'.state = "session_ssr_auth_sent"

\* C34 (as claimed): connection_id and local_client_id change only in the
\* step that creates a tunnel, and that step increases connection_id; no
\* step of the handshake, the relay or the shutdown changes them.
C34_IdsChangeOnCreation ==
    [][/\ TunnelCreated =>
            Gt32(obfs'.g_data.connection_id, obfs.g_data.connection_id)
       /\ ~TunnelCreated => UNCHANGED obfs.g_data]_vars

\* C34 (amended): connection_id and local_client_id change only when the
\* tunnel packs its auth data, in the handshake step in which do_req_connect
\* hands the initial package to tunnel_encrypt after the connect to the
\* server succeeded.  A tunnel that sends the package has increased
\* connection_id by one (no re-seeding is due from 7); creation, the
\* earlier handshake, the relay and the shutdown leave both ids alone.
C34_IdsChangeOnAuthPacked ==
    [][/\ AuthSentStep =>
            obfs'.g_data = [obfs.g_data EXCEPT !.connection_id = Inc32(@)]
       /\ obfs'.g_data # obfs.g_data =>
            /\ tunnel.state = "session_req_connect"
            /\ tunnel.outgoing.req = "connect"
            /\ tunnel'.outgoing.result = ZERO
            /\ obfs.l_data.has_sent_header = 0
            /\ obfs'.l_data.has_sent_header = 1
       /\ TunnelCreated => UNCHANGED obfs.g_data]_vars

\* The tunnel relays after its auth chunk took connection_id from 7 to 8
\* and a later chunk of the client was packed.
C34_Witness ==
    /\ tunnel.state = "session_proxy_start"
    /\ obfs.g_data.connection_id = U32(0, 8)
    /\ obfs.l_data.pack_id = 2


\* ---------------------------------------------------------------------
\* The auth chunk and has_sent_header.

\* pack_auth_data made C: two of its tags are keyed with the server's iv
\* and key, which no data chunk's are.
IsAuthChunk(C) == \E i \in 1..Len(C) : C[i].k = "hmac_iv_key"

AuthChunksOf(chunks) == {i \in 1..Len(chunks) : IsAuthChunk(chunks[i])}

\* C35: an instance emits its auth chunk in its first client_pre_encrypt
\* call with a non-empty input, as the first chunk of that call, and in no
\* other call: a call emits one exactly when it finds has_sent_header 0 and
\* has input, that call sets has_sent_header to 1, a call without input
\* leaves it, and no call takes it back to 0; the chunks after the first
\* and those of all later calls are data chunks.
C35_AuthChunkOnce ==
    [][wire'.calls # wire.calls =>
          /\ AuthChunksOf(wire'.chunks) =
                IF obfs.l_data.has_sent_header = 0 /\ wire'.datalength > 0
                THEN {1} ELSE {}
          /\ obfs'.l_data.has_sent_header =
                IF wire'.datalength > 0 THEN 1 ELSE obfs.l_data.has_sent_header
          /\ obfs.l_data.has_sent_header = 1 => obfs'.l_data.has_sent_header = 1
          /\ wire'.datalength > 0 => Len(wire'.chunks) > 0]_vars

\* After a call without input, a call with 3201 bytes gave the auth chunk
\* and two data chunks.
C35_Witness ==
    /\ wire.calls = 2
    /\ wire.fed = 3201
    /\ wire.datalength = 3201
    /\ wire.first
    /\ obfs.l_data.has_sent_header = 1
    /\ AuthChunksOf(wire.chunks) = {1}
    /\ Len(wire.chunks) = 3


\* ---------------------------------------------------------------------
\* One operation at a time before the proxy phase.

\* The tunnel lives and do_proxy_start has not yet started the two
\* continuous reads: it does so when the write of the success reply, which
\* do_ssr_auth_sent made in going to proxy_start, is completed.
PreProxy ==
    /\ alloc = "live"
    /\ \/ tunnel.state \notin {"session_proxy_start", "session_proxy", "session_dead"}
       \/ /\ tunnel.state = "session_proxy_start"
          /\ tunnel.incoming.wrstate = "socket_busy"

\* The reads, writes, resolves and connects of socket c not yet called back.
Outstanding(c) ==
    (IF tunnel[c].reading # "none" THEN 1 ELSE 0)
    + Len(tunnel[c].writes)
    + (IF tunnel[c].req # "none" THEN 1 ELSE 0)

\* C36 (as claimed): before the proxy phase a socket is read only while the
\* write state of the other socket is stop, a write that was completed has
\* its write state back at stop when a read is posted, and at most one
\* read, write, resolve or connect of the tunnel is outstanding.
C36_OneOperationWritesStopped ==
    PreProxy =>
        /\ \A c \in Sockets : tunnel[c].reading # "none" =>
                /\ tunnel[Peer(c)].wrstate = "socket_stop"
                /\ \A d \in Sockets : tunnel[d].wrstate # "socket_done"
        /\ Outstanding("incoming") + Outstanding("outgoing") <= 1

\* C36 (amended): the same, but for the read that waits for the client to
\* close after the UDP ASSOCIATE reply: the completed write of that reply
\* leaves the write state of the client socket at done.
C36_OneOperationWritesStoppedButUdp ==
    PreProxy =>
        /\ \A c \in Sockets : tunnel[c].reading # "none" =>
                /\ tunnel[Peer(c)].wrstate = "socket_stop"
                /\ \A d \in Sockets :
                      tunnel[d].wrstate = "socket_done" =>
                          /\ tunnel.state = "session_req_udp_accoc"
                          /\ c = "incoming" /\ d = "incoming"
        /\ Outstanding("incoming") + Outstanding("outgoing") <= 1

\* The UDP ASSOCIATE reply was written and the client socket is read.
C36_Witness ==
    /\ PreProxy
    /\ tunnel.state = "session_req_udp_accoc"
    /\ tunnel.incoming.reading = "socket_read_done_cb"
    /\ tunnel.incoming.wrstate = "socket_done"
    /\ Outstanding("incoming") + Outstanding("outgoing") = 1

\* ---------------------------------------------------------------------
\* The preconditions of the state handlers.

\* C37 (as claimed): whenever do_next enters a state handler the read and
\* write states it asserts hold, under every interleaving of completions
\* and timer expiries: no ASSERT of a handler, of socket_read or of
\* socket_write fails in a call of do_next.
C37_HandlerAssertsHold == ~tunnel.next_failed


\* ---------------------------------------------------------------------
\* One shutdown per tunnel.

\* C38: tunnel_shutdown runs at most once on a tunnel and never on a dead
\* one, and socket_close runs once on each of its two sockets, in that run:
\* a tunnel that is not dead was never shut down and has no socket closed,
\* a dead one was shut down once and has each socket closed once, whatever
\* the order of errors, EOFs, failed writes and timer expiries, so the
\* ASSERTs of tunnel_shutdown and socket_close hold.  (Runs in which a
\* callback came after the tunnel was freed are left aside: what they read
\* is not defined.)
C38_ShutdownOnce ==
    (alloc # "none" /\ ~uaf) =>
        /\ tunnel.shutdowns = IF tunnel_is_dead(tunnel) THEN 1 ELSE 0
        /\ \A c \in Sockets :
              /\ tunnel[c].closes = tunnel.shutdowns
              /\ (tunnel[c].rdstate = "socket_dead") = tunnel_is_dead(tunnel)
              /\ (tunnel[c].wrstate = "socket_dead") = tunnel_is_dead(tunnel)

\* A tunnel shut down in the proxy phase with a write still queued on the
\* closing upstream socket, whose callback is yet to come.
C38_Witness ==
    /\ alloc = "live"
    /\ tunnel_is_dead(tunnel)
    /\ tunnel.shutdowns = 1
    /\ tunnel.outgoing.closes = 1
    /\ tunnel.outgoing.handle = "closing"
    /\ tunnel.outgoing.writes # <<>>
    /\ Head(tunnel.outgoing.writes).cb = "ssr_write_done_cb"


\* ---------------------------------------------------------------------
\* The state of the tunnel in the relay.

\* do_proxy_start has started the two continuous reads of a tunnel that
\* was not shut down since.
Relaying ==
    /\ alloc = "live"
    /\ tunnel.state = "session_proxy_start"
    /\ tunnel.incoming.wrstate # "socket_busy"

C40_WriteBuffersOutlastWrites ==
    alloc = "live" =>
        \A c \in Sockets : \A i \in 1..Len(tunnel[c].held) : tunnel[c].held[i]

====
